---------------------------- MODULE Spec2Model ----------------------------
(* Model of the SmartSPIM external dispatcher capsule:                     *)
(*   src/code/run_capsule.py  (dispatch, clean_up, copy_intermediate_data, *)
(*                             run)                                        *)
(*   src/code/utils/utils.py  (compile_processing_jsons,                   *)
(*                             validate_capsule_inputs,                    *)
(*                             execute_command_helper)                     *)
(* Python strings that the code inspects character by character (the       *)
(* argument string of run) are sequences of one-character strings; every   *)
(* other string is an atomic TLA+ string.                                  *)
EXTENDS Integers, Sequences, FiniteSets, TLC

VARIABLES
    pc,                 \* position of the single thread of control
    caller,             \* who called the function under way: "direct" or "run"
    err,                \* the exception that ended the run, "none" otherwise
    manifest,           \* the processing_manifest / pipeline_config dictionary
    background_channel, \* dispatch: local variable
    chIdx,              \* dispatch: position of the for loop over segment_channels
    taskFiles,          \* results folder: channel |-> content of its ChannelTask file
    processing_paths,   \* compile_processing_jsons: the fragment list it was given
    fragIdx,            \* compile_processing_jsons: position of the for loop
    data_processes,     \* compile_processing_jsons: the accumulating list
    procDoc,            \* the processing.json that generate_processing wrote
    output_filename,    \* what compile_processing_jsons returned ("None" when caught)
    compileCaller,      \* "direct", "copy" (copy_intermediate_data) or "clean" (clean_up)
    log,                \* files written and commands issued, in order
    arguments,          \* the arguments the process was started with
    argv,               \* run: sys.argv[1:], each argument a sequence of characters
    params,             \* run: the argument string after the replacements
    mode,               \* run: first token of params
    cloud_mode,         \* run: bool(second token of params)
    output_path,        \* run: third token of params
    branch,             \* run: the branch of the mode test that was entered
    exists,             \* data folder: the required input files that are there
    missing_files,      \* run: what validate_capsule_inputs returned
    found,              \* the stage folders that the globs returned
    loopIdx,            \* position of the relocation loop under way
    s3_path,            \* local variable s3_path ("<unbound>" until assigned)
    cmdLines,           \* command under way: output lines not yet delivered
    cmdNext,            \* command under way: where control goes on exit status 0
    modified_manifest,  \* results folder: modified_processing_manifest.json
    wavelength,         \* wavelength_to_hex*: the argument
    hex_val,            \* wavelength_to_hex*: the value returned
    s3_channel_paths,   \* create_ng_link: the list of channel locations
    layers              \* create_ng_link: the layers of the state it built

dispatchVars == <<manifest, background_channel, chIdx, taskFiles>>
compileVars == <<processing_paths, fragIdx, data_processes, procDoc,
                 output_filename, compileCaller>>
argVars == <<arguments, argv, params, mode, cloud_mode, output_path, branch>>
inputVars == <<exists, missing_files>>
relocVars == <<found, loopIdx, s3_path, cmdLines, cmdNext>>
runVars == <<argVars, inputVars, relocVars, modified_manifest>>
ngVars == <<wavelength, hex_val, s3_channel_paths, layers>>
vars == <<pc, caller, err, manifest, background_channel, chIdx, taskFiles,
          processing_paths, fragIdx, data_processes, procDoc, output_filename,
          compileCaller, log, runVars, ngVars>>

-----------------------------------------------------------------------------
(* Bounds of the model.                                                    *)

MaxChannels == 3        \* longest segmentation.channels list
MaxRegChannels == 1     \* longest registration.channels list
MaxFragments == 3       \* longest list of provenance fragments
MaxEntries == 2         \* most process entries in one fragment
MaxFolders == 2         \* most stage folders in the staging area of one run
MaxLines == 1           \* most output lines of one transfer command

(* All sequences over S of length at most n. *)
SeqsUpTo(S, n) == UNION {[1..k -> S] : k \in 0..n}

-----------------------------------------------------------------------------
(* The processing specification.                                           *)

ChannelNames == {"Ex_488_Em_525", "Ex_561_Em_600"}
BackgroundNames == {"Ex_445_Em_469", "Ex_561_Em_600"}

Absent == "<absent>"    \* a dictionary key that is not there

FusedPath == "../data/fused"
SavePath == "../results/"

NoQuantification ==
    [present |-> FALSE, fused_folder |-> Absent, channel |-> Absent,
     save_path |-> Absent]

RawSegmentation ==
    [input_data |-> Absent, channel |-> Absent, background_channel |-> Absent]

(* A manifest: hasPP says whether the key "pipeline_processing" is there,  *)
(* ppKind what its value is: "None" (JSON null), "empty" ({}) or "block".  *)
MakeManifest(has, kind, seg, reg) ==
    [hasPP |-> has, ppKind |-> kind, segChannels |-> seg, regChannels |-> reg,
     segmentation |-> RawSegmentation, quantification |-> NoQuantification,
     s3_path |-> Absent, name |-> Absent]

EmptyManifest == MakeManifest(FALSE, "None", <<>>, <<>>)

DispatchManifests ==
    {EmptyManifest, MakeManifest(TRUE, "None", <<>>, <<>>),
     MakeManifest(TRUE, "empty", <<>>, <<>>)}
    \cup {MakeManifest(TRUE, "block", seg, reg) :
            seg \in SeqsUpTo(ChannelNames, MaxChannels),
            reg \in SeqsUpTo(BackgroundNames, MaxRegChannels)}

-----------------------------------------------------------------------------
(* Helpers shared by all functions.                                        *)

(* An entry of the log: a file written ("write", name, qualifier) or a     *)
(* shell command issued ("cmd", verb, source, destination directory and    *)
(* last component of the destination).                                     *)
Event(op, what, arg) ==
    [op |-> op, what |-> what, arg |-> arg, dir |-> "", leaf |-> ""]

Cmd(verb, source, dir, leaf) ==
    [op |-> "cmd", what |-> verb, arg |-> source, dir |-> dir, leaf |-> leaf]

Unbound == "<unbound>"  \* a local variable that was never assigned

(* The staging area as the run has seen it: the lists of the globs, and    *)
(* the subdirectories that Path.exists() reported absent.                  *)
NoFolders ==
    [destripe |-> <<>>, flatfield |-> <<>>, stitch |-> <<>>, fuse |-> <<>>,
     ccf |-> <<>>, cell |-> <<>>, quant |-> <<>>, lacking |-> {}]

NotWritten == [written |-> FALSE, content |-> EmptyManifest]

(* An uncaught exception: the run ends. *)
Raise(e) == pc' = "failed" /\ err' = e

-----------------------------------------------------------------------------
(* dispatch (run_capsule.py 141-196).                                      *)

(* processing_manifest.get("pipeline_processing") *)
PipelineGet(m) == IF m.hasPP THEN m.ppKind ELSE "None"

(* A test `is not None` in place of the truth test. *)
TruthyIsNotNone(ppValue) == ppValue # "None"

(* `if pipeline_config:` -- only a non-empty dictionary is truthy *)
Truthy(ppValue) == ppValue = "block"

(* The emptiness test left out. *)
NoSegmentationChannelsUnchecked(segment_channels) == FALSE

(* `if not len(segment_channels):` *)
NoSegmentationChannels(segment_channels) == Len(segment_channels) = 0

(* The channel stamp forgotten. *)
StampSegmentationNoChannel(seg, channel, background) ==
    [seg EXCEPT !.input_data = FusedPath,
                !.background_channel = background]

(* The three stamps on copy_pipeline_config["segmentation"]; the copy is   *)
(* shallow, so this dictionary is the manifest's own.                      *)
StampSegmentation(seg, channel, background) ==
    [seg EXCEPT !.input_data = FusedPath,
                !.channel = channel,
                !.background_channel = background]

(* copy_pipeline_config["quantification"], a key of the copy only *)
QuantificationFor(channel) ==
    [present |-> TRUE, fused_folder |-> FusedPath, channel |-> channel,
     save_path |-> SavePath]

(* What save_dict_as_json serialises for one channel: the copy as it is at *)
(* the time of the call.                                                   *)
ChannelTask(m, channel, background) ==
    [segmentation |-> StampSegmentation(m.segmentation, channel, background),
     quantification |-> QuantificationFor(channel),
     segChannels |-> m.segChannels,
     regChannels |-> m.regChannels,
     s3_path |-> m.s3_path]

(* The channel left out of the file name: every task goes to one file. *)
WriteTaskOneName(files, channel, content) ==
    [c \in DOMAIN files \cup {""} |-> content]

(* save_dict_as_json to segmentation_processing_manifest_<channel>.json *)
WriteTask(files, channel, content) ==
    [c \in DOMAIN files \cup {channel} |->
        IF c = channel THEN content ELSE files[c]]

TaskFileName == "segmentation_processing_manifest"

(* No copy taken: the quantification key lands in the caller's dictionary. *)
AfterStampsWithoutCopy(m, task) ==
    [m EXCEPT !.segmentation = task.segmentation,
              !.quantification = task.quantification]

(* The caller's dictionary after one iteration: pipeline_config.copy()     *)
(* (line 176) is shallow, so the stamps of lines 178-182 land in the       *)
(* caller's segmentation dictionary, and the quantification key of line    *)
(* 185 in the copy only.                                                   *)
AfterStamps(m, task) == [m EXCEPT !.segmentation = task.segmentation]

(* Lines 162-173: the checks before the loop. *)
DispatchEnter ==
    /\ pc = "dispatch"
    /\ UNCHANGED ngVars
    /\ IF ~Truthy(PipelineGet(manifest))
         THEN /\ Raise("Stopping pipeline, pipeline configuration.")
              /\ UNCHANGED <<background_channel, chIdx>>
       ELSE IF Len(manifest.regChannels) = 0
         THEN /\ Raise("IndexError")
              /\ UNCHANGED <<background_channel, chIdx>>
       ELSE IF NoSegmentationChannels(manifest.segChannels)
         THEN /\ Raise("Stopping pipeline, no segmentation channels.")
              /\ background_channel' = manifest.regChannels[1]
              /\ UNCHANGED chIdx
       ELSE /\ pc' = "dispatch_loop"
            /\ background_channel' = manifest.regChannels[1]
            /\ chIdx' = 1
            /\ UNCHANGED err
    /\ UNCHANGED <<caller, manifest, taskFiles, log>>
    /\ UNCHANGED compileVars
    /\ UNCHANGED runVars

(* Lines 175-193: one iteration of the loop. *)
DispatchChannel ==
    /\ pc = "dispatch_loop"
    /\ UNCHANGED ngVars
    /\ chIdx <= Len(manifest.segChannels)
    /\ LET channel_to_segment == manifest.segChannels[chIdx]
           task == ChannelTask(manifest, channel_to_segment, background_channel)
       IN  /\ manifest' = AfterStamps(manifest, task)
           /\ taskFiles' = WriteTask(taskFiles, channel_to_segment, task)
           /\ log' = Append(log, Event("write", TaskFileName, channel_to_segment))
    /\ chIdx' = chIdx + 1
    /\ UNCHANGED <<pc, caller, err, background_channel>>
    /\ UNCHANGED compileVars
    /\ UNCHANGED runVars

(* The fan-out put before the visualization link. *)
StepAfterFanOutEarly(step) ==
    CASE step = "copy_intermediate_data" -> "record_s3_path"
      [] step = "record_s3_path" -> "dispatch"
      [] step = "dispatch" -> "create_ng_link"
      [] step = "create_ng_link" -> "copy_ng_link"
      [] step = "copy_ng_link" -> "save_modified"

(* The order of the statements of run's Dispatch branch                    *)
(* (run_capsule.py 861-923): relocation, visualization link, its copy, the *)
(* storage path recorded, the fan-out, the modified specification saved.   *)
StepAfter(step) ==
    CASE step = "copy_intermediate_data" -> "create_ng_link"
      [] step = "create_ng_link" -> "copy_ng_link"
      [] step = "copy_ng_link" -> "record_s3_path"
      [] step = "record_s3_path" -> "dispatch"
      [] step = "dispatch" -> "save_modified"

(* The loop is over: dispatch returns to its caller. *)
DispatchReturn ==
    /\ pc = "dispatch_loop"
    /\ UNCHANGED ngVars
    /\ chIdx > Len(manifest.segChannels)
    /\ pc' = IF caller = "run" THEN StepAfter("dispatch") ELSE "done"
    /\ UNCHANGED <<caller, err, log>>
    /\ UNCHANGED dispatchVars
    /\ UNCHANGED compileVars
    /\ UNCHANGED runVars

NoDoc == [written |-> FALSE, data_processes |-> <<>>]

(* The variables of the visualization link while it is not being built. *)
NgIdle ==
    /\ wavelength = 0
    /\ hex_val = 0
    /\ s3_channel_paths = <<>>
    /\ layers = <<>>

(* The variables of run while a function is exercised on its own. *)
RunIdle ==
    /\ arguments = <<>>
    /\ argv = <<>>
    /\ branch = "none"
    /\ params = <<>>
    /\ mode = <<>>
    /\ cloud_mode = FALSE
    /\ output_path = <<>>
    /\ exists = {}
    /\ missing_files = <<>>
    /\ found = NoFolders
    /\ loopIdx = 0
    /\ s3_path = Unbound
    /\ cmdLines = 0
    /\ cmdNext = "none"
    /\ modified_manifest = NotWritten
    /\ NgIdle

InitDispatch ==
    /\ pc = "dispatch"
    /\ caller = "direct"
    /\ err = "none"
    /\ manifest \in DispatchManifests
    /\ background_channel = Absent
    /\ chIdx = 0
    /\ taskFiles = <<>>
    /\ processing_paths = <<>>
    /\ fragIdx = 0
    /\ data_processes = <<>>
    /\ procDoc = NoDoc
    /\ output_filename = "unset"
    /\ compileCaller = "direct"
    /\ log = <<>>
    /\ RunIdle

NextDispatch == DispatchEnter \/ DispatchChannel \/ DispatchReturn

SpecDispatch == InitDispatch /\ [][NextDispatch]_vars

-----------------------------------------------------------------------------
(* compile_processing_jsons (utils.py 537-580), with read_json_as_dict     *)
(* (utils.py 251-275) and generate_processing (utils.py 489-534).          *)

EntryNames == {"p1", "p2"}

(* What is found at a fragment path: a processing.json that the schema     *)
(* accepts ("valid", with its data_processes), nothing ("missing"), a file *)
(* that is not JSON ("malformed"), JSON that the schema rejects            *)
(* ("invalid"), or a directory ("directory").                              *)
Fragment(kind, entries) == [kind |-> kind, entries |-> entries]

ValidFragments ==
    {Fragment("valid", e) : e \in SeqsUpTo(EntryNames, MaxEntries)}

BadFragments ==
    {Fragment("missing", <<>>), Fragment("malformed", <<>>),
     Fragment("invalid", <<>>)}

Fragments == ValidFragments \cup BadFragments

EmptyDict == [isProcessing |-> FALSE, entries |-> <<>>]

(* read_json_as_dict: {} for a path that does not exist, the parsed        *)
(* document otherwise; open and json.load raise on what they cannot read.  *)
ReadJsonAsDict(frag) ==
    CASE frag.kind = "missing" ->
            [error |-> "none", dict |-> EmptyDict]
      [] frag.kind = "malformed" ->
            [error |-> "JSONDecodeError", dict |-> EmptyDict]
      [] frag.kind = "directory" ->
            [error |-> "IsADirectoryError", dict |-> EmptyDict]
      [] frag.kind = "invalid" ->
            [error |-> "none", dict |-> EmptyDict]
      [] OTHER ->
            [error |-> "none",
             dict |-> [isProcessing |-> TRUE, entries |-> frag.entries]]

(* An empty dictionary taken for a fragment without processes. *)
ValidateSkippingEmpty(read) ==
    IF read.error # "none" THEN read.error ELSE "none"

(* TypeAdapter(Processing).validate_python: a dictionary without a         *)
(* processing_pipeline is rejected.                                        *)
Validate(read) ==
    IF read.error # "none" THEN read.error
    ELSE IF ~read.dict.isProcessing THEN "ValidationError"
    ELSE "none"

(* Each process put in front of the list. *)
RECURSIVE AppendAllInFront(_, _)
AppendAllInFront(acc, entries) ==
    IF entries = <<>> THEN acc
    ELSE AppendAllInFront(<<Head(entries)>> \o acc, Tail(entries))

(* Lines 570-571: the inner loop, one append per data_process. *)
RECURSIVE AppendAll(_, _)
AppendAll(acc, entries) ==
    IF entries = <<>> THEN acc
    ELSE AppendAll(Append(acc, Head(entries)), Tail(entries))

(* Nothing written for an empty list. *)
GenerateProcessingUnlessEmpty(processes, dest) ==
    IF processes = <<>>
    THEN [doc |-> [written |-> FALSE, data_processes |-> <<>>],
          returns |-> "None"]
    ELSE [doc |-> [written |-> TRUE, data_processes |-> processes],
          returns |-> dest]

(* generate_processing: wraps the list in a Processing document, writes it *)
(* to dest_processing and returns dest_processing.                         *)
GenerateProcessing(processes, dest) ==
    [doc |-> [written |-> TRUE, data_processes |-> processes],
     returns |-> dest]

(* output_general_processing, as each caller passes it *)
CompileDest ==
    CASE compileCaller = "copy" -> "results/output_aind_metadata"
      [] compileCaller = "clean" -> "results"
      [] OTHER -> "dest"

(* Where control goes when compile_processing_jsons returns. *)
CompileReturnPc ==
    CASE compileCaller = "copy" -> "copy_relocate"
      [] compileCaller = "clean" -> "clean_relocate"
      [] OTHER -> "done"

(* No call site with a try around it. *)
CaughtNowhere(callSite) == FALSE

(* A try around every call site. *)
CaughtEverywhere(callSite) == TRUE

(* The call sites that catch what the compiler raises: the try/except of   *)
(* copy_intermediate_data (run_capsule.py 496-506); clean_up (268-273)     *)
(* calls it bare.                                                          *)
Caught(callSite) == callSite = "copy"

(* Lines 565-571: one fragment read, validated and appended.               *)
CompileFragment ==
    /\ pc = "compile_loop"
    /\ UNCHANGED ngVars
    /\ fragIdx <= Len(processing_paths)
    /\ LET frag == processing_paths[fragIdx]
           read == ReadJsonAsDict(frag)
           failure == Validate(read)
       IN  IF failure = "none"
           THEN /\ data_processes' = AppendAll(data_processes, read.dict.entries)
                /\ fragIdx' = fragIdx + 1
                /\ UNCHANGED <<pc, err, output_filename>>
           ELSE IF Caught(compileCaller)
           THEN /\ output_filename' = "None"
                /\ pc' = CompileReturnPc
                /\ UNCHANGED <<err, data_processes, fragIdx>>
           ELSE /\ Raise(failure)
                /\ UNCHANGED <<data_processes, fragIdx, output_filename>>
    /\ UNCHANGED <<caller, processing_paths, procDoc, compileCaller, log>>
    /\ UNCHANGED dispatchVars
    /\ UNCHANGED runVars

(* Lines 573-580: the document is written after the last fragment. *)
CompileWrite ==
    /\ pc = "compile_loop"
    /\ UNCHANGED ngVars
    /\ fragIdx > Len(processing_paths)
    /\ LET out == GenerateProcessing(data_processes, CompileDest)
       IN  /\ procDoc' = out.doc
           /\ output_filename' = out.returns
           /\ log' = IF out.doc.written
                     THEN Append(log, Event("write", "processing.json", CompileDest))
                     ELSE log
    /\ pc' = CompileReturnPc
    /\ UNCHANGED <<caller, err, processing_paths, fragIdx, data_processes,
                   compileCaller>>
    /\ UNCHANGED dispatchVars
    /\ UNCHANGED runVars

InitCompile ==
    /\ pc = "compile_loop"
    /\ caller = "direct"
    /\ err = "none"
    /\ manifest = EmptyManifest
    /\ background_channel = Absent
    /\ chIdx = 0
    /\ taskFiles = <<>>
    /\ processing_paths \in SeqsUpTo(Fragments, MaxFragments)
    /\ fragIdx = 1
    /\ data_processes = <<>>
    /\ procDoc = NoDoc
    /\ output_filename = "unset"
    /\ compileCaller = "direct"
    /\ log = <<>>
    /\ RunIdle

NextCompile == CompileFragment \/ CompileWrite

SpecCompile == InitCompile /\ [][NextCompile]_vars

-----------------------------------------------------------------------------
(* run (run_capsule.py 774-943): the arguments.                            *)

W_dispatch == <<"d", "i", "s", "p", "a", "t", "c", "h">>
W_clean == <<"c", "l", "e", "a", "n">>
W_true == <<"t", "r", "u", "e">>
W_false == <<"f", "a", "l", "s", "e">>
W_bucket == <<"b", "k", "t">>

(* The argument lists run is started with: three arguments, with capital   *)
(* letters, with both mode words, with neither, two arguments only, and    *)
(* one argument that holds the commas itself.                              *)
ArgvSet ==
    {<<W_dispatch, W_true, W_bucket>>,
     <<W_dispatch, W_false, W_bucket>>,
     <<<<"C", "l", "e", "a", "n">>, <<"T", "r", "u", "e">>, W_bucket>>,
     <<W_clean, W_false, W_bucket>>,
     <<W_clean \o <<"_">> \o W_dispatch, W_true, W_bucket>>,
     <<<<"s", "t", "i", "t", "c", "h">>, W_true, W_bucket>>,
     <<W_dispatch, W_true>>,
     <<W_dispatch \o <<",", ",">> \o W_bucket>>,
     <<W_clean \o <<",", ",">> \o W_bucket>>}

(* repr of a str without quotes or backslashes *)
Repr(arg) == <<"'">> \o arg \o <<"'">>

(* str(list): "[" + ", ".join(repr(a) for a in list) + "]" *)
RECURSIVE JoinRepr(_)
JoinRepr(args) ==
    IF args = <<>> THEN <<>>
    ELSE IF Len(args) = 1 THEN Repr(args[1])
    ELSE Repr(Head(args)) \o <<",", " ">> \o JoinRepr(Tail(args))

StrOfList(args) == <<"[">> \o JoinRepr(args) \o <<"]">>

(* str.replace(ch, "") *)
Remove(text, ch) == SelectSeq(text, LAMBDA c : c # ch)

UpperCase == <<"A", "B", "C", "D", "E", "F", "G", "H", "I", "J", "K", "L", "M",
               "N", "O", "P", "Q", "R", "S", "T", "U", "V", "W", "X", "Y", "Z">>
LowerCase == <<"a", "b", "c", "d", "e", "f", "g", "h", "i", "j", "k", "l", "m",
               "n", "o", "p", "q", "r", "s", "t", "u", "v", "w", "x", "y", "z">>

CaseFoldChar(c) ==
    IF \E n \in 1..Len(UpperCase) : UpperCase[n] = c
    THEN LowerCase[CHOOSE n \in 1..Len(UpperCase) : UpperCase[n] = c]
    ELSE c

(* The text taken as it is. *)
CaseFoldLeftOut(text) == text

(* str.casefold on ASCII text *)
CaseFold(text) == [n \in 1..Len(text) |-> CaseFoldChar(text[n])]

(* str.split(sep) for a one-character separator *)
RECURSIVE Split(_, _)
Split(text, sep) ==
    IF \A n \in 1..Len(text) : text[n] # sep THEN <<text>>
    ELSE LET n == CHOOSE m \in 1..Len(text) :
                     /\ text[m] = sep
                     /\ \A j \in 1..(m - 1) : text[j] # sep
         IN  <<SubSeq(text, 1, n - 1)>>
                 \o Split(SubSeq(text, n + 1, Len(text)), sep)

(* `word in text` *)
Contains(text, word) ==
    \E n \in 1..(Len(text) - Len(word) + 1) :
        SubSeq(text, n, n + Len(word) - 1) = word

(* Any token at all taken for true only when it spells 'true'. *)
BoolOfWord(token) == Contains(token, W_true)

(* bool(str): every non-empty string is true *)
Bool(token) == Len(token) > 0

(* The characters of a sequence as one string. *)
RECURSIVE Str(_)
Str(cs) == IF cs = <<>> THEN "" ELSE Head(cs) \o Str(Tail(cs))

(* Lines 803-804 *)
ParamsOf(args) == CaseFold(Remove(Remove(StrOfList(args), "["), "]"))

(* Lines 803-814: three tokens or exit(1). *)
RunParseArgs ==
    /\ pc = "run"
    /\ UNCHANGED ngVars
    /\ params' = ParamsOf(argv)
    /\ LET tokens == Split(params', ",")
       IN  IF Len(tokens) = 3
           THEN /\ mode' = tokens[1]
                /\ cloud_mode' = Bool(tokens[2])
                /\ output_path' = tokens[3]
                /\ argv' = <<>>
                /\ pc' = "validate"
                /\ UNCHANGED err
           ELSE /\ pc' = "exited"
                /\ err' = "exit(1)"
                /\ UNCHANGED <<mode, cloud_mode, output_path, argv>>
    /\ UNCHANGED <<caller, log, arguments, branch, inputVars, relocVars,
                   modified_manifest>>
    /\ UNCHANGED dispatchVars
    /\ UNCHANGED compileVars

-----------------------------------------------------------------------------
(* run: the required inputs and the choice of the mode.                    *)

ManifestFile == "processing_manifest.json"
ModifiedManifestFile == "modified_processing_manifest.json"
DataDescriptionFile == "input_aind_metadata/data_description.json"

RequiredFiles == {ManifestFile, ModifiedManifestFile, DataDescriptionFile}

(* Lines 823-832 *)
RequiredInputElements(modeToken) ==
    IF Contains(modeToken, W_clean)
    THEN <<ModifiedManifestFile, DataDescriptionFile>>
    ELSE <<ManifestFile, DataDescriptionFile>>

(* The loop left at the first missing element. *)
RECURSIVE ValidateCapsuleInputsFirstOnly(_, _)
ValidateCapsuleInputsFirstOnly(input_elements, present) ==
    IF input_elements = <<>> THEN <<>>
    ELSE IF Head(input_elements) \notin present THEN <<Head(input_elements)>>
    ELSE ValidateCapsuleInputsFirstOnly(Tail(input_elements), present)

(* validate_capsule_inputs (utils.py 346-370) *)
RECURSIVE ValidateCapsuleInputs(_, _)
ValidateCapsuleInputs(input_elements, present) ==
    IF input_elements = <<>> THEN <<>>
    ELSE (IF Head(input_elements) \notin present
          THEN <<Head(input_elements)>> ELSE <<>>)
             \o ValidateCapsuleInputs(Tail(input_elements), present)

ErrMissingInputs == "We miss the following files in the capsule input"
ErrNotImplemented == "The mode has not been implemented"

(* Lines 823-841 *)
RunValidateInputs ==
    /\ pc = "validate"
    /\ UNCHANGED ngVars
    /\ missing_files' = ValidateCapsuleInputs(RequiredInputElements(mode), exists)
    /\ IF Len(missing_files') > 0
       THEN Raise(ErrMissingInputs)
       ELSE pc' = "select_mode" /\ UNCHANGED err
    /\ UNCHANGED <<caller, log, argVars, exists, relocVars, modified_manifest>>
    /\ UNCHANGED dispatchVars
    /\ UNCHANGED compileVars

(* Lines 843, 925, 942: if "dispatch" ... elif "clean" ... else raise *)
ModeBranch(modeToken) ==
    IF Contains(modeToken, W_dispatch) THEN "Dispatch"
    ELSE IF Contains(modeToken, W_clean) THEN "Clean"
    ELSE "none"

RunSelectMode ==
    /\ pc = "select_mode"
    /\ UNCHANGED ngVars
    /\ branch' = ModeBranch(mode)
    /\ CASE branch' = "Dispatch" -> pc' = "dispatch_config" /\ UNCHANGED err
         [] branch' = "Clean" -> pc' = "clean_config" /\ UNCHANGED err
         [] OTHER -> Raise(ErrNotImplemented)
    /\ UNCHANGED <<caller, log, arguments, argv, params, mode, cloud_mode,
                   output_path, inputVars, relocVars, modified_manifest>>
    /\ UNCHANGED dispatchVars
    /\ UNCHANGED compileVars

-----------------------------------------------------------------------------
(* get_data_config (run_capsule.py 326-381).                               *)

GoodChannels == <<"Ex_488_Em_525", "Ex_561_Em_600">>
GoodBackground == <<"Ex_445_Em_469">>

(* What processing_manifest.json may hold in a run. *)
RunManifests ==
    {EmptyManifest,
     MakeManifest(TRUE, "block", <<>>, GoodBackground),
     MakeManifest(TRUE, "block", GoodChannels, GoodBackground)}

StoredS3Path == "s3://bkt/SmartSPIM_000000_stitched"

(* What modified_processing_manifest.json may hold: what an earlier        *)
(* Dispatch run left, with or without a recorded storage path.             *)
CleanManifests ==
    {EmptyManifest,
     MakeManifest(TRUE, "block", GoodChannels, GoodBackground),
     [MakeManifest(TRUE, "block", GoodChannels, GoodBackground)
        EXCEPT !.s3_path = StoredS3Path,
               !.segmentation = StampSegmentation(RawSegmentation,
                                    GoodChannels[2], GoodBackground[1])]}

DatasetName == "SmartSPIM_000000"

(* Lines 362-381 for one specification file name; the content of both      *)
(* files is only known once they are read.                                 *)
GetDataConfig(fileName, contents, nextPc) ==
    /\ IF fileName \notin exists
         THEN /\ Raise("Please, check processing manifest path")
              /\ UNCHANGED manifest
       ELSE IF DataDescriptionFile \notin exists
         THEN /\ Raise("Please, check data description path")
              /\ UNCHANGED manifest
       ELSE \E m \in contents, described \in BOOLEAN :
              IF described
              THEN /\ manifest' = m
                   /\ pc' = nextPc
                   /\ UNCHANGED err
              ELSE /\ manifest' = m
                   /\ Raise("KeyError")
    /\ UNCHANGED <<caller, log, runVars>>
    /\ UNCHANGED <<background_channel, chIdx, taskFiles>>
    /\ UNCHANGED compileVars

(* Lines 844-847 *)
DispatchGetDataConfig ==
    /\ pc = "dispatch_config"
    /\ UNCHANGED ngVars
    /\ GetDataConfig(ManifestFile, RunManifests, "derived_metadata")

(* Lines 927-933 *)
CleanGetDataConfig ==
    /\ pc = "clean_config"
    /\ UNCHANGED ngVars
    /\ GetDataConfig(ModifiedManifestFile,
                     {[m EXCEPT !.name = DatasetName] : m \in CleanManifests},
                     "clean_up")

InitRun ==
    /\ pc = "run"
    /\ caller = "run"
    /\ err = "none"
    /\ manifest = EmptyManifest
    /\ background_channel = Absent
    /\ chIdx = 0
    /\ taskFiles = <<>>
    /\ processing_paths = <<>>
    /\ fragIdx = 0
    /\ data_processes = <<>>
    /\ procDoc = NoDoc
    /\ output_filename = "unset"
    /\ compileCaller = "direct"
    /\ log = <<>>
    /\ arguments \in ArgvSet
    /\ argv = arguments
    /\ branch = "none"
    /\ params = <<>>
    /\ mode = <<>>
    /\ cloud_mode = FALSE
    /\ output_path = <<>>
    /\ exists \in SUBSET RequiredFiles
    /\ missing_files = <<>>
    /\ found = NoFolders
    /\ loopIdx = 0
    /\ s3_path = Unbound
    /\ cmdLines = 0
    /\ cmdNext = "none"
    /\ modified_manifest = NotWritten
    /\ NgIdle

-----------------------------------------------------------------------------
(* The staging area: what the globs of run and clean_up return.            *)

(* A stage folder: its base name, a sequence of characters, and what       *)
(* glob("<folder>/metadata/*processing*.json") finds in it.                *)
Folder(name, frags) == [name |-> name, frags |-> frags]

Ex_488_Em_525 == <<"E", "x", "_", "4", "8", "8", "_", "E", "m", "_", "5", "2", "5">>
Ex_561_Em_600 == <<"E", "x", "_", "5", "6", "1", "_", "E", "m", "_", "6", "0", "0">>

P_destripe == 
    <<"i", "m", "a", "g", "e", "_", "d", "e", "s", "t", "r", "i", "p", "i", "n", "g", "_">>
P_flatfield == 
    <<"f", "l", "a", "t", "f", "i", "e", "l", "d", "_", "c", "o", "r", "r", "e", "c", "t", "i", "o", "n", "_">>
P_stitch == <<"s", "t", "i", "t", "c", "h", "_">>
P_fusion == <<"f", "u", "s", "i", "o", "n", "_">>
P_ccf == <<"c", "c", "f", "_">>
P_cell == <<"c", "e", "l", "l", "_">>
P_quant == <<"q", "u", "a", "n", "t", "_">>
W_results == <<"r", "e", "s", "u", "l", "t", "s">>

(* The fragment of a folder carries the folder's name as its one process. *)
FolderFragments(name) ==
    {<<>>, <<Fragment("valid", <<name>>)>>, <<Fragment("invalid", <<>>)>>}

FolderItems(names) ==
    UNION {{Folder(n, f) : f \in FolderFragments(n)} : n \in names}

(* image_destriping_* paths are handed to the compiler as they are. *)
DestripeItems ==
    {Folder(P_destripe \o Ex_488_Em_525, <<Fragment(kind, <<>>)>>) :
        kind \in {"directory"}}
    \cup {Folder(P_destripe \o Ex_488_Em_525,
                 <<Fragment("valid", <<P_destripe \o Ex_488_Em_525>>)>>)}

FlatfieldItems == {Folder(P_flatfield \o Ex_488_Em_525, <<>>)}
StitchItems == FolderItems({P_stitch \o Ex_488_Em_525})
FuseItems == FolderItems({P_fusion \o Ex_488_Em_525, P_fusion \o Ex_561_Em_600})
(* One ccf folder carries the channel in the middle of its name. *)
CcfItems ==
    FolderItems({P_ccf \o Ex_561_Em_600,
                 P_ccf \o Ex_561_Em_600 \o <<"_", "v", "2">>})
CellItems == FolderItems({P_cell \o Ex_488_Em_525, P_cell \o W_results})
QuantItems == FolderItems({P_quant \o Ex_488_Em_525, P_quant \o W_results})

DistinctNames(list) ==
    \A a, b \in 1..Len(list) : a # b => list[a].name # list[b].name

(* The lists a glob may return: any order, no name twice. *)
FolderLists(items, n) == {l \in SeqsUpTo(items, n) : DistinctNames(l)}

DecimalDigits == {"0", "1", "2", "3", "4", "5", "6", "7", "8", "9"}

(* The pattern Ex_(\d{3})_Em_(\d{3}) on the 13 characters of text from     *)
(* position n on.                                                          *)
MatchesAt(text, n) ==
    /\ n >= 1
    /\ n + 12 <= Len(text)
    /\ SubSeq(text, n, n + 2) = <<"E", "x", "_">>
    /\ \A j \in (n + 3)..(n + 5) : text[j] \in DecimalDigits
    /\ SubSeq(text, n + 6, n + 9) = <<"_", "E", "m", "_">>
    /\ \A j \in (n + 10)..(n + 12) : text[j] \in DecimalDigits

(* The first match anywhere in the name, the end of the name not asked for. *)
ChannelTokenUnanchored(name) ==
    IF \E n \in 1..Len(name) : MatchesAt(name, n)
    THEN LET n == CHOOSE m \in 1..Len(name) :
                     /\ MatchesAt(name, m)
                     /\ \A j \in 1..(m - 1) : ~MatchesAt(name, j)
         IN  SubSeq(name, n, n + 12)
    ELSE <<>>

(* re.search(r"Ex_(\d{3})_Em_(\d{3})$", folder): the text matched, which    *)
(* ends where the name ends; <<>> for None.                                *)
ChannelToken(name) ==
    IF MatchesAt(name, Len(name) - 12)
    THEN SubSeq(name, Len(name) - 12, Len(name))
    ELSE <<>>

RECURSIVE FragmentsOf(_)
FragmentsOf(folders) ==
    IF folders = <<>> THEN <<>>
    ELSE Head(folders).frags \o FragmentsOf(Tail(folders))

-----------------------------------------------------------------------------
(* execute_command_helper (utils.py 114-152): the command is started, its  *)
(* output lines are yielded one by one, then the exit status is examined.  *)

Issue(command, nextPc) ==
    /\ log' = Append(log, command)
    /\ pc' = "cmd_running"
    /\ cmdNext' = nextPc
    /\ cmdLines' \in 0..MaxLines

(* The exit status looked at whatever is left to read. *)
DrainedAtOnce(lines) == TRUE

(* Line 147: iter(popen.stdout.readline, "") ends at end of output only *)
Drained(lines) == lines = 0

(* Lines 147-148: one line yielded to the caller's for loop. *)
CmdOutput ==
    /\ pc = "cmd_running"
    /\ UNCHANGED ngVars
    /\ cmdLines > 0
    /\ cmdLines' = cmdLines - 1
    /\ UNCHANGED <<pc, caller, err, log, argVars, inputVars, found, loopIdx,
                   s3_path, cmdNext, modified_manifest>>
    /\ UNCHANGED dispatchVars
    /\ UNCHANGED compileVars

(* Lines 149-152: end of output, wait, raise on a non-zero status. *)
CmdExit ==
    /\ pc = "cmd_running"
    /\ UNCHANGED ngVars
    /\ Drained(cmdLines)
    /\ \E return_code \in {0, 1} :
          IF return_code # 0
          THEN Raise("CalledProcessError")
          ELSE pc' = cmdNext /\ UNCHANGED err
    /\ UNCHANGED <<caller, log, runVars>>
    /\ UNCHANGED dispatchVars
    /\ UNCHANGED compileVars

-----------------------------------------------------------------------------
(* run, Dispatch branch: lines 849-859.                                    *)

NewDatasetName == "SmartSPIM_000000_stitched"
OutputDispatchMetadata == "results/output_aind_metadata"

(* create_derived_stitched_metadata (run_capsule.py 599-660): the derived  *)
(* data description is written unless the schema service rejects the raw   *)
(* one.                                                                    *)
CreateDerivedStitchedMetadata ==
    /\ pc = "derived_metadata"
    /\ UNCHANGED ngVars
    /\ \E accepted \in BOOLEAN :
          IF accepted
          THEN /\ log' = Append(log, Event("write", "data_description.json",
                                           OutputDispatchMetadata))
               /\ pc' = "discover"
               /\ UNCHANGED err
          ELSE /\ Raise("ValidationError")
               /\ UNCHANGED log
    /\ UNCHANGED <<caller, runVars>>
    /\ UNCHANGED dispatchVars
    /\ UNCHANGED compileVars

(* Lines 855-859: the five globs. *)
DiscoverStages ==
    /\ pc = "discover"
    /\ UNCHANGED ngVars
    /\ \E d \in FolderLists(DestripeItems, MaxFolders) :
       \E f \in FolderLists(FlatfieldItems, MaxFolders - Len(d)) :
       \E s \in FolderLists(StitchItems, MaxFolders - Len(d) - Len(f)) :
       \E u \in FolderLists(FuseItems, MaxFolders - Len(d) - Len(f) - Len(s)) :
       \E c \in FolderLists(CcfItems,
                            MaxFolders - Len(d) - Len(f) - Len(s) - Len(u)) :
          found' = [found EXCEPT !.destripe = d, !.flatfield = f,
                                 !.stitch = s, !.fuse = u, !.ccf = c]
    /\ pc' = "copy_intermediate_data"
    /\ UNCHANGED <<caller, err, log, argVars, inputVars, loopIdx, s3_path,
                   cmdLines, cmdNext, modified_manifest>>
    /\ UNCHANGED dispatchVars
    /\ UNCHANGED compileVars

-----------------------------------------------------------------------------
(* copy_intermediate_data (run_capsule.py 384-596).                        *)

(* The ccf fragments put in front. *)
CopyProcessingPathsCcfFirst(st) ==
    FragmentsOf(st.ccf)
        \o FragmentsOf(st.destripe) \o FragmentsOf(st.stitch)
        \o FragmentsOf(st.fuse)

(* Lines 459-493: destripe files, then the fragments of the stitch, fuse   *)
(* and ccf folders.                                                        *)
CopyProcessingPaths(st) ==
    FragmentsOf(st.destripe)
        \o FragmentsOf(st.stitch) \o FragmentsOf(st.fuse) \o FragmentsOf(st.ccf)

(* Lines 459-502: the call of compile_processing_jsons inside try. *)
CopyCompile ==
    /\ pc = "copy_intermediate_data"
    /\ UNCHANGED ngVars
    /\ processing_paths' = CopyProcessingPaths(found)
    /\ fragIdx' = 1
    /\ data_processes' = <<>>
    /\ compileCaller' = "copy"
    /\ pc' = "compile_loop"
    /\ UNCHANGED <<caller, err, log, procDoc, output_filename, runVars>>
    /\ UNCHANGED dispatchVars

(* f"s3://{output_path}/{new_dataset_name}" *)
S3Path(path, dataset) == "s3://" \o Str(path) \o "/" \o dataset

FusionDir(root) == root \o "/image_tile_fusing"

frame == <<caller, err, argVars, inputVars, found, modified_manifest>>

(* Lines 510-518: cloud mode starts with the derived metadata; local mode  *)
(* goes straight to the return statement.                                  *)
CopyBegin ==
    /\ pc = "copy_relocate"
    /\ UNCHANGED ngVars
    /\ IF cloud_mode
       THEN /\ s3_path' = S3Path(output_path, NewDatasetName)
            /\ Issue(Cmd("aws s3 cp --recursive", OutputDispatchMetadata,
                         s3_path', ""), "copy_flatfield")
            /\ loopIdx' = 1
       ELSE /\ pc' = "copy_return"
            /\ UNCHANGED <<s3_path, log, cmdLines, cmdNext, loopIdx>>
    /\ UNCHANGED frame
    /\ UNCHANGED dispatchVars
    /\ UNCHANGED compileVars

(* Lines 525-534 *)
CopyFlatfield ==
    /\ pc = "copy_flatfield"
    /\ UNCHANGED ngVars
    /\ IF loopIdx <= Len(found.flatfield)
       THEN /\ Issue(Cmd("aws s3 cp --recursive",
                         Str(found.flatfield[loopIdx].name),
                         FusionDir(s3_path) \o "/metadata/flatfield_correction",
                         Str(found.flatfield[loopIdx].name)), "copy_flatfield")
            /\ loopIdx' = loopIdx + 1
       ELSE /\ pc' = "copy_fuse_zarr"
            /\ loopIdx' = 1
            /\ UNCHANGED <<log, cmdLines, cmdNext>>
    /\ UNCHANGED s3_path
    /\ UNCHANGED frame
    /\ UNCHANGED dispatchVars
    /\ UNCHANGED compileVars

(* Path.exists() of <folder>/metadata: there when the glob found a         *)
(* fragment in it, either way otherwise.                                   *)
MetadataExists(folder) == IF folder.frags # <<>> THEN {TRUE} ELSE BOOLEAN

ErrNoFolder == "ValueError: Folder does not exist!"

(* The copy attempted whether the subdirectory is there or not. *)
SubdirCheckLeftOut(there) == "copy"

(* Lines 542-549, 551-558, 566-573: if <subdirectory>.exists() ... else    *)
(* raise ValueError                                                        *)
SubdirCheck(there) == IF there THEN "copy" ELSE "raise"

(* exists() answered for the subdirectory sub of folder. *)
Probed(st, folder, sub, there) ==
    IF there THEN st
    ELSE [st EXCEPT !.lacking = @ \cup {<<folder.name, sub>>}]

(* Lines 536-549: the OMEZarr subdirectory of one fusion folder. *)
CopyFuseZarr ==
    /\ pc = "copy_fuse_zarr"
    /\ UNCHANGED ngVars
    /\ IF loopIdx <= Len(found.fuse)
       THEN \E source_zarr_exists \in BOOLEAN :
               /\ found' = Probed(found, found.fuse[loopIdx], "OMEZarr",
                                  source_zarr_exists)
               /\ IF SubdirCheck(source_zarr_exists) = "copy"
                  THEN /\ Issue(Cmd("aws s3 cp --recursive",
                                    Str(found.fuse[loopIdx].name) \o "/OMEZarr",
                                    FusionDir(s3_path) \o "/OMEZarr", ""),
                                "copy_fuse_metadata")
                       /\ UNCHANGED <<err, loopIdx>>
                  ELSE /\ Raise(ErrNoFolder)
                       /\ UNCHANGED <<log, cmdLines, cmdNext, loopIdx>>
       ELSE /\ pc' = "copy_stitch"
            /\ loopIdx' = 1
            /\ UNCHANGED <<err, log, cmdLines, cmdNext, found>>
    /\ UNCHANGED <<caller, argVars, inputVars, s3_path, modified_manifest>>
    /\ UNCHANGED dispatchVars
    /\ UNCHANGED compileVars

(* Lines 551-558: the metadata subdirectory of the same fusion folder. *)
CopyFuseMetadata ==
    /\ pc = "copy_fuse_metadata"
    /\ UNCHANGED ngVars
    /\ \E source_metadata_exists \in MetadataExists(found.fuse[loopIdx]) :
          /\ found' = Probed(found, found.fuse[loopIdx], "metadata",
                             source_metadata_exists)
          /\ IF SubdirCheck(source_metadata_exists) = "copy"
             THEN /\ Issue(Cmd("aws s3 cp --recursive",
                               Str(found.fuse[loopIdx].name) \o "/metadata",
                               FusionDir(s3_path) \o "/metadata",
                               Str(found.fuse[loopIdx].name)), "copy_fuse_zarr")
                  /\ loopIdx' = loopIdx + 1
                  /\ UNCHANGED err
             ELSE /\ Raise(ErrNoFolder)
                  /\ UNCHANGED <<log, cmdLines, cmdNext, loopIdx>>
    /\ UNCHANGED <<caller, argVars, inputVars, s3_path, modified_manifest>>
    /\ UNCHANGED dispatchVars
    /\ UNCHANGED compileVars

(* Lines 561-573 *)
CopyStitch ==
    /\ pc = "copy_stitch"
    /\ UNCHANGED ngVars
    /\ IF loopIdx <= Len(found.stitch)
       THEN \E source_metadata_exists \in MetadataExists(found.stitch[loopIdx]) :
               /\ found' = Probed(found, found.stitch[loopIdx], "metadata",
                                  source_metadata_exists)
               /\ IF SubdirCheck(source_metadata_exists) = "copy"
                  THEN /\ Issue(Cmd("aws s3 cp --recursive",
                                    Str(found.stitch[loopIdx].name) \o "/metadata",
                                    FusionDir(s3_path) \o "/metadata",
                                    Str(found.stitch[loopIdx].name)), "copy_stitch")
                       /\ loopIdx' = loopIdx + 1
                       /\ UNCHANGED err
                  ELSE /\ Raise(ErrNoFolder)
                       /\ UNCHANGED <<log, cmdLines, cmdNext, loopIdx>>
       ELSE /\ pc' = "copy_ccf"
            /\ loopIdx' = 1
            /\ UNCHANGED <<err, log, cmdLines, cmdNext, found>>
    /\ UNCHANGED <<caller, argVars, inputVars, s3_path, modified_manifest>>
    /\ UNCHANGED dispatchVars
    /\ UNCHANGED compileVars

(* One move of a channel folder: .group() of no match is an AttributeError *)
MoveByChannel(folder, dir, nextPc) ==
    IF ChannelToken(folder.name) = <<>>
    THEN /\ Raise("AttributeError")
         /\ UNCHANGED <<log, cmdLines, cmdNext, loopIdx>>
    ELSE /\ Issue(Cmd("aws s3 mv --recursive", Str(folder.name), dir,
                      Str(ChannelToken(folder.name))), nextPc)
         /\ loopIdx' = loopIdx + 1
         /\ UNCHANGED err

(* Lines 576-590: the ccf folders are moved, then output_stitching.txt is  *)
(* written.                                                                *)
CopyCcf ==
    /\ pc = "copy_ccf"
    /\ UNCHANGED ngVars
    /\ IF loopIdx <= Len(found.ccf)
       THEN MoveByChannel(found.ccf[loopIdx],
                          s3_path \o "/image_atlas_alignment", "copy_ccf")
       ELSE /\ log' = Append(log, Event("write", "output_stitching.txt", s3_path))
            /\ pc' = "copy_return"
            /\ UNCHANGED <<err, cmdLines, cmdNext, loopIdx>>
    /\ UNCHANGED <<caller, argVars, inputVars, found, s3_path, modified_manifest>>
    /\ UNCHANGED dispatchVars
    /\ UNCHANGED compileVars

(* Line 596: both names are assigned in the cloud branch only. *)
CopyReturn ==
    /\ pc = "copy_return"
    /\ UNCHANGED ngVars
    /\ IF s3_path = Unbound
       THEN Raise("UnboundLocalError")
       ELSE pc' = StepAfter("copy_intermediate_data") /\ UNCHANGED err
    /\ UNCHANGED <<caller, log, runVars>>
    /\ UNCHANGED dispatchVars
    /\ UNCHANGED compileVars

-----------------------------------------------------------------------------
(* wavelength_to_hex and wavelength_to_hex_alternate (run_capsule.py       *)
(* 36-120).  A dictionary is scanned in insertion order; after the loop    *)
(* hex_val still holds the value of the last entry.                        *)

MaxWavelength == 800    \* the wavelengths tried are -MaxWavelength..MaxWavelength

Wavelengths == (0 - MaxWavelength)..MaxWavelength

color_map ==
    <<[ub |-> 460, hex_val |-> 6884094],   \* 0x690AFE
      [ub |-> 470, hex_val |-> 4140798],   \* 0x3F2EFE
      [ub |-> 480, hex_val |-> 4952318],   \* 0x4B90FE
      [ub |-> 490, hex_val |-> 5887480],   \* 0x59D5F8
      [ub |-> 500, hex_val |-> 6158550],   \* 0x5DF8D6
      [ub |-> 520, hex_val |-> 5963448],   \* 0x5AFEB8
      [ub |-> 540, hex_val |-> 5832353],   \* 0x58FEA1
      [ub |-> 560, hex_val |-> 5373726],   \* 0x51FF1E
      [ub |-> 565, hex_val |-> 12319489],   \* 0xBBFB01
      [ub |-> 575, hex_val |-> 15330306],   \* 0xE9EC02
      [ub |-> 580, hex_val |-> 16106755],   \* 0xF5C503
      [ub |-> 590, hex_val |-> 15962375],   \* 0xF39107
      [ub |-> 600, hex_val |-> 15815185],   \* 0xF15211
      [ub |-> 620, hex_val |-> 15733278],   \* 0xF0121E
      [ub |-> 750, hex_val |-> 15728720]>>   \* 0xF00050

color_map_alternate ==
    <<[ub |-> 500, hex_val |-> 6401021],   \* 0x61ABFD
      [ub |-> 530, hex_val |-> 9633602],   \* 0x92FF42
      [ub |-> 540, hex_val |-> 15007297],   \* 0xE4FE41
      [ub |-> 560, hex_val |-> 15978552],   \* 0xF3D038
      [ub |-> 580, hex_val |-> 15380530],   \* 0xEAB032
      [ub |-> 600, hex_val |-> 15818530],   \* 0xF15F22
      [ub |-> 630, hex_val |-> 15539236],   \* 0xED1C24
      [ub |-> 680, hex_val |-> 12918303],   \* 0xC51E1F
      [ub |-> 700, hex_val |-> 11018015]>>   \* 0xA81F1F

(* The scan with `<=` in place of `<`. *)
RECURSIVE WavelengthToHexInclusive(_, _)
WavelengthToHexInclusive(w, n) ==
    IF w <= color_map[n].ub THEN color_map[n].hex_val
    ELSE IF n = Len(color_map) THEN color_map[n].hex_val
    ELSE WavelengthToHexInclusive(w, n + 1)

(* Lines 73-76, from entry n on: `if wavelength < ub` *)
RECURSIVE WavelengthToHex(_, _)
WavelengthToHex(w, n) ==
    IF w < color_map[n].ub THEN color_map[n].hex_val
    ELSE IF n = Len(color_map) THEN color_map[n].hex_val
    ELSE WavelengthToHex(w, n + 1)

(* The scan with `<` in place of `<=`. *)
RECURSIVE WavelengthToHexAlternateExclusive(_, _)
WavelengthToHexAlternateExclusive(w, n) ==
    IF w < color_map_alternate[n].ub THEN color_map_alternate[n].hex_val
    ELSE IF n = Len(color_map_alternate) THEN color_map_alternate[n].hex_val
    ELSE WavelengthToHexAlternateExclusive(w, n + 1)

(* Lines 117-120, from entry n on: `if wavelength <= ub` *)
RECURSIVE WavelengthToHexAlternate(_, _)
WavelengthToHexAlternate(w, n) ==
    IF w <= color_map_alternate[n].ub THEN color_map_alternate[n].hex_val
    ELSE IF n = Len(color_map_alternate) THEN color_map_alternate[n].hex_val
    ELSE WavelengthToHexAlternate(w, n + 1)

(* The variables of the other functions while a color is looked up. *)
OthersIdle ==
    /\ caller = "direct"
    /\ err = "none"
    /\ manifest = EmptyManifest
    /\ background_channel = Absent
    /\ chIdx = 0
    /\ taskFiles = <<>>
    /\ processing_paths = <<>>
    /\ fragIdx = 0
    /\ data_processes = <<>>
    /\ procDoc = NoDoc
    /\ output_filename = "unset"
    /\ compileCaller = "direct"
    /\ log = <<>>
    /\ arguments = <<>>
    /\ argv = <<>>
    /\ branch = "none"
    /\ params = <<>>
    /\ mode = <<>>
    /\ cloud_mode = FALSE
    /\ output_path = <<>>
    /\ exists = {}
    /\ missing_files = <<>>
    /\ found = NoFolders
    /\ loopIdx = 0
    /\ s3_path = Unbound
    /\ cmdLines = 0
    /\ cmdNext = "none"
    /\ modified_manifest = NotWritten

notColor == <<caller, err, manifest, background_channel, chIdx, taskFiles,
              processing_paths, fragIdx, data_processes, procDoc,
              output_filename, compileCaller, log, runVars>>

(* wavelength_to_hex(wavelength) *)
CallWavelengthToHex ==
    /\ pc = "color"
    /\ hex_val' = WavelengthToHex(wavelength, 1)
    /\ pc' = "returned_hex"
    /\ UNCHANGED <<wavelength, s3_channel_paths, layers>>
    /\ UNCHANGED notColor

(* wavelength_to_hex_alternate(wavelength) *)
CallWavelengthToHexAlternate ==
    /\ pc = "color"
    /\ hex_val' = WavelengthToHexAlternate(wavelength, 1)
    /\ pc' = "returned_hex_alternate"
    /\ UNCHANGED <<wavelength, s3_channel_paths, layers>>
    /\ UNCHANGED notColor

InitColor ==
    /\ pc = "color"
    /\ wavelength \in Wavelengths
    /\ hex_val = 0
    /\ s3_channel_paths = <<>>
    /\ layers = <<>>
    /\ OthersIdle

NextColor == CallWavelengthToHex \/ CallWavelengthToHexAlternate

SpecColor == InitColor /\ [][NextColor]_vars

-----------------------------------------------------------------------------
(* create_ng_link (run_capsule.py 663-772).  The locations are sequences   *)
(* of characters: the code sorts them as strings and parses their stems.   *)

(* The characters that occur in a location, in code point order. *)
Ascii ==
    <<" ", "'", ",", ".", "/", "0", "1", "2", "3", "4", "5", "6", "7", "8",
      "9", ":", "A", "B", "C", "D", "E", "F", "G", "H", "I", "J", "K", "L",
      "M", "N", "O", "P", "Q", "R", "S", "T", "U", "V", "W", "X", "Y", "Z",
      "[", "]", "_", "a", "b", "c", "d", "e", "f", "g", "h", "i", "j", "k",
      "l", "m", "n", "o", "p", "q", "r", "s", "t", "u", "v", "w", "x", "y",
      "z">>

Ord(c) == CHOOSE n \in 1..Len(Ascii) : Ascii[n] = c

(* a < b for two Python strings *)
StrLess(a, b) ==
    \E n \in 1..(Len(a) + 1) :
        /\ n <= Len(b)
        /\ \A j \in 1..(n - 1) : a[j] = b[j]
        /\ (n = Len(a) + 1 \/ Ord(a[n]) < Ord(b[n]))

(* The list taken in the order it came. *)
SortedLeftOut(list) == list

(* One element put behind every element that is not greater. *)
RECURSIVE InsertSorted(_, _)
InsertSorted(list, x) ==
    IF list = <<>> THEN <<x>>
    ELSE IF StrLess(x, Head(list)) THEN <<x>> \o list
    ELSE <<Head(list)>> \o InsertSorted(Tail(list), x)

RECURSIVE SortedFrom(_, _)
SortedFrom(done, rest) ==
    IF rest = <<>> THEN done
    ELSE SortedFrom(InsertSorted(done, Head(rest)), Tail(rest))

(* Line 692: sorted(s3_channel_paths) *)
Sorted(list) == SortedFrom(<<>>, list)

(* The position of the last ch in text, 0 when there is none. *)
LastIndex(text, ch) ==
    IF \A n \in 1..Len(text) : text[n] # ch THEN 0
    ELSE CHOOSE n \in 1..Len(text) :
            /\ text[n] = ch
            /\ \A j \in (n + 1)..Len(text) : text[j] # ch

(* Path(p).name *)
PathName(p) == SubSeq(p, LastIndex(p, "/") + 1, Len(p))

(* Path(p).stem: the name without its last suffix *)
PathStem(p) ==
    LET name == PathName(p)
        dot == LastIndex(name, ".")
    IN  IF dot > 1 /\ dot < Len(name) THEN SubSeq(name, 1, dot - 1) ELSE name

(* channel_str.split("_")[-1] *)
LastToken(stem) == LET parts == Split(stem, "_") IN parts[Len(parts)]

Digits == <<"0", "1", "2", "3", "4", "5", "6", "7", "8", "9">>

IsDigit(c) == \E n \in 1..Len(Digits) : Digits[n] = c

(* int(token) raises ValueError unless token is a run of digits *)
IsInt(token) == token # <<>> /\ \A n \in 1..Len(token) : IsDigit(token[n])

RECURSIVE IntOf(_)
IntOf(token) ==
    IF token = <<>> THEN 0
    ELSE 10 * IntOf(SubSeq(token, 1, Len(token) - 1))
            + (CHOOSE n \in 1..Len(Digits) : Digits[n] = token[Len(token)]) - 1

HexDigits == <<"0", "1", "2", "3", "4", "5", "6", "7", "8", "9",
               "a", "b", "c", "d", "e", "f">>

(* str(hex(n))[2:] for n >= 0 *)
RECURSIVE Hex(_)
Hex(n) ==
    IF n < 16 THEN HexDigits[n + 1]
    ELSE Hex(n \div 16) \o HexDigits[(n % 16) + 1]

(* Lines 712-715 for one location *)
NgColor(channel_str) ==
    "#" \o Hex(WavelengthToHexAlternate(IntOf(LastToken(PathStem(channel_str))), 1))

(* Lines 724-741: the fields of a layer that depend on the location *)
Layer(source, color) ==
    [source |-> source, type |-> "image", channel |-> 0,
     name |-> PathName(source), color |-> color]

(* Lines 692-742: the list is sorted, one color per location is computed   *)
(* from the sorted list, then one layer per position is built.             *)
NgLayers(paths) ==
    LET sorted == Sorted(paths)
        colors == [n \in 1..Len(sorted) |-> NgColor(sorted[n])]
    IN  [idx \in 1..Len(sorted) |-> Layer(sorted[idx], colors[idx])]

(* create_ng_link as a whole: int() raises on a stem without a numeric     *)
(* suffix, the state builder is an external library that may refuse, and   *)
(* the state is written to neuroglancer_config.json otherwise.             *)
CreateNgLinkBody(paths, nextPc) ==
    IF \E n \in 1..Len(paths) : ~IsInt(LastToken(PathStem(paths[n])))
    THEN /\ Raise("ValueError")
         /\ UNCHANGED <<log, layers>>
    ELSE \E built \in BOOLEAN :
            IF built
            THEN /\ layers' = NgLayers(paths)
                 /\ log' = Append(log, Event("write", "neuroglancer_config.json",
                                             "results"))
                 /\ pc' = nextPc
                 /\ UNCHANGED err
            ELSE /\ Raise("NgStateError")
                 /\ UNCHANGED <<log, layers>>

MaxPaths == 3           \* longest list of channel locations

ZarrRoot == <<"s", "3", ":", "/", "/", "b", "/", "d", "/">>

(* Channel locations: three that follow the naming scheme, one whose stem  *)
(* has no numeric suffix.                                                  *)
ChannelPaths ==
    {ZarrRoot \o <<"E", "x", "_", "4", "8", "8", "_", "E", "m", "_", "5", "2", "5", ".", "z", "a", "r", "r">>,
     ZarrRoot \o <<"E", "x", "_", "5", "6", "1", "_", "E", "m", "_", "6", "0", "0", ".", "z", "a", "r", "r">>,
     ZarrRoot \o <<"E", "x", "_", "4", "4", "5", "_", "E", "m", "_", "7", "0", "0", ".", "z", "a", "r", "r">>,
     ZarrRoot \o <<"E", "x", "_", "6", "3", "9", "_", "E", "m", "_", "r", "a", "w", ".", "z", "a", "r", "r">>}

CreateNgLink ==
    /\ pc = "ng_link"
    /\ CreateNgLinkBody(s3_channel_paths, "done")
    /\ UNCHANGED <<wavelength, hex_val, s3_channel_paths>>
    /\ UNCHANGED <<caller, runVars>>
    /\ UNCHANGED dispatchVars
    /\ UNCHANGED compileVars

InitNgLink ==
    /\ pc = "ng_link"
    /\ wavelength = 0
    /\ hex_val = 0
    /\ s3_channel_paths \in SeqsUpTo(ChannelPaths, MaxPaths)
    /\ layers = <<>>
    /\ OthersIdle

NextNgLink == CreateNgLink

SpecNgLink == InitNgLink /\ [][NextNgLink]_vars

-----------------------------------------------------------------------------
(* run, Dispatch branch: lines 875-923.                                    *)

(* str.replace(word, ""): every occurrence taken out, left to right *)
RECURSIVE RemoveWord(_, _)
RemoveWord(text, word) ==
    IF Len(text) < Len(word) THEN text
    ELSE IF SubSeq(text, 1, Len(word)) = word
         THEN RemoveWord(SubSeq(text, Len(word) + 1, Len(text)), word)
         ELSE <<Head(text)>> \o RemoveWord(Tail(text), word)

(* s3_dest_zarr, f"s3://{output_path}/{new_dataset_name}/image_tile_fusing *)
(* /OMEZarr", character by character                                       *)
S3DestZarr(path) ==
    <<"s", "3", ":", "/", "/">> \o path
        \o <<"/", "S", "m", "a", "r", "t", "S", "P", "I", "M", "_", "0", "0", "0", "0", "0", "0", "_", "s", "t", "i", "t", "c", "h", "e", "d">>
        \o <<"/", "i", "m", "a", "g", "e", "_", "t", "i", "l", "e", "_", "f", "u", "s", "i", "n", "g", "/", "O", "M", "E", "Z", "a", "r", "r">>

(* Lines 876-880: one location per fusion folder, in the order of the glob *)
S3PathsForChannels(fuse_folders, path) ==
    [n \in 1..Len(fuse_folders) |->
        S3DestZarr(path) \o <<"/">>
            \o RemoveWord(fuse_folders[n].name, P_fusion)
            \o <<".", "z", "a", "r", "r">>]

(* Lines 875-896: the locations are built, the resolution block is read    *)
(* from the specification and create_ng_link is called.                    *)
RunCreateNgLink ==
    /\ pc = "create_ng_link"
    /\ s3_channel_paths' = S3PathsForChannels(found.fuse, output_path)
    /\ IF ~(manifest.hasPP /\ manifest.ppKind = "block")
       THEN /\ Raise("KeyError")
            /\ UNCHANGED <<log, layers>>
       ELSE CreateNgLinkBody(s3_channel_paths', StepAfter("create_ng_link"))
    /\ UNCHANGED <<wavelength, hex_val>>
    /\ UNCHANGED <<caller, runVars>>
    /\ UNCHANGED dispatchVars
    /\ UNCHANGED compileVars

(* Lines 901-910 *)
RunCopyNgLink ==
    /\ pc = "copy_ng_link"
    /\ UNCHANGED ngVars
    /\ IF cloud_mode
       THEN Issue(Cmd("aws s3 cp", "results/neuroglancer_config.json", s3_path,
                      "neuroglancer_config.json"), StepAfter("copy_ng_link"))
       ELSE /\ pc' = StepAfter("copy_ng_link")
            /\ UNCHANGED <<log, cmdLines, cmdNext>>
    /\ UNCHANGED <<loopIdx, s3_path>>
    /\ UNCHANGED frame
    /\ UNCHANGED dispatchVars
    /\ UNCHANGED compileVars

(* The assignment forgotten. *)
RecordS3PathLeftOut(m, path) == m

(* Line 913: pipeline_config[...]["stitching"]["s3_path"] = s3_path *)
RecordS3Path(m, path) == [m EXCEPT !.s3_path = path]

(* Lines 912-918: the storage path goes into the stitching block and       *)
(* dispatch is called on the same dictionary.                              *)
RunRecordS3Path ==
    /\ pc = "record_s3_path"
    /\ UNCHANGED ngVars
    /\ manifest' = RecordS3Path(manifest, s3_path)
    /\ pc' = StepAfter("record_s3_path")
    /\ UNCHANGED <<caller, err, log, runVars>>
    /\ UNCHANGED <<background_channel, chIdx, taskFiles>>
    /\ UNCHANGED compileVars

(* Lines 920-923 *)
RunSaveModified ==
    /\ pc = "save_modified"
    /\ UNCHANGED ngVars
    /\ modified_manifest' = [written |-> TRUE, content |-> manifest]
    /\ log' = Append(log, Event("write", ModifiedManifestFile, "results"))
    /\ pc' = "done"
    /\ UNCHANGED <<caller, err, argVars, inputVars, relocVars>>
    /\ UNCHANGED dispatchVars
    /\ UNCHANGED compileVars

-----------------------------------------------------------------------------
(* clean_up (run_capsule.py 199-323).                                      *)

(* data/output_aind_metadata/processing.json, the provenance so far *)
W_output_aind_metadata ==
    <<"o", "u", "t", "p", "u", "t", "_", "a", "i", "n", "d", "_", "m", "e", "t", "a", "d", "a", "t", "a">>

DatasetProvenance ==
    {Fragment("valid", <<W_output_aind_metadata>>), Fragment("missing", <<>>)}

(* Lines 231-273: the globs, the path list, the call of the compiler. *)
CleanCompile ==
    /\ pc = "clean_up"
    /\ UNCHANGED ngVars
    /\ \E c \in FolderLists(CellItems, MaxFolders) :
       \E q \in FolderLists(QuantItems, MaxFolders - Len(c)) :
       \E provenance \in DatasetProvenance :
          /\ found' = [found EXCEPT !.cell = c, !.quant = q]
          /\ processing_paths' = <<provenance>> \o FragmentsOf(c) \o FragmentsOf(q)
    /\ fragIdx' = 1
    /\ data_processes' = <<>>
    /\ compileCaller' = "clean"
    /\ pc' = "compile_loop"
    /\ UNCHANGED <<caller, err, log, procDoc, output_filename, argVars,
                   inputVars, loopIdx, s3_path, cmdLines, cmdNext,
                   modified_manifest>>
    /\ UNCHANGED dispatchVars

(* Lines 279-291 *)
CleanBegin ==
    /\ pc = "clean_relocate"
    /\ UNCHANGED ngVars
    /\ IF cloud_mode
       THEN IF ~(manifest.hasPP /\ manifest.ppKind = "block")
                 \/ manifest.s3_path = Absent
            THEN /\ Raise("KeyError")
                 /\ UNCHANGED <<s3_path, log, cmdLines, cmdNext, loopIdx>>
            ELSE /\ s3_path' = manifest.s3_path
                 /\ Issue(Cmd("aws s3 mv", "results/processing.json", s3_path',
                              "processing.json"), "clean_cell")
                 /\ loopIdx' = 1
                 /\ UNCHANGED err
       ELSE /\ pc' = "clean_summary"
            /\ UNCHANGED <<err, s3_path, log, cmdLines, cmdNext, loopIdx>>
    /\ UNCHANGED <<caller, argVars, inputVars, found, modified_manifest>>
    /\ UNCHANGED dispatchVars
    /\ UNCHANGED compileVars

(* Lines 294-300 *)
CleanCell ==
    /\ pc = "clean_cell"
    /\ UNCHANGED ngVars
    /\ IF loopIdx <= Len(found.cell)
       THEN MoveByChannel(found.cell[loopIdx],
                          s3_path \o "/image_cell_segmentation", "clean_cell")
       ELSE /\ pc' = "clean_quant"
            /\ loopIdx' = 1
            /\ UNCHANGED <<err, log, cmdLines, cmdNext>>
    /\ UNCHANGED <<caller, argVars, inputVars, found, s3_path, modified_manifest>>
    /\ UNCHANGED dispatchVars
    /\ UNCHANGED compileVars

(* Lines 303-309 *)
CleanQuant ==
    /\ pc = "clean_quant"
    /\ UNCHANGED ngVars
    /\ IF loopIdx <= Len(found.quant)
       THEN MoveByChannel(found.quant[loopIdx],
                          s3_path \o "/image_cell_quantification", "clean_quant")
       ELSE /\ pc' = "clean_summary"
            /\ UNCHANGED <<err, log, cmdLines, cmdNext, loopIdx>>
    /\ UNCHANGED <<caller, argVars, inputVars, found, s3_path, modified_manifest>>
    /\ UNCHANGED dispatchVars
    /\ UNCHANGED compileVars

(* Lines 315-323: cell_s3_output and quantification_s3_output are assigned *)
(* in the cloud branch only.                                               *)
CleanSummary ==
    /\ pc = "clean_summary"
    /\ UNCHANGED ngVars
    /\ IF s3_path = Unbound
       THEN /\ Raise("UnboundLocalError")
            /\ UNCHANGED log
       ELSE /\ log' = log \o <<Event("write", "output_cell.txt",
                                     s3_path \o "/image_cell_segmentation"),
                               Event("write", "output_quantification.txt",
                                     s3_path \o "/image_cell_quantification")>>
            /\ pc' = "done"
            /\ UNCHANGED err
    /\ UNCHANGED <<caller, runVars>>
    /\ UNCHANGED dispatchVars
    /\ UNCHANGED compileVars

-----------------------------------------------------------------------------
(* The whole program.                                                      *)

Init == InitRun

Next ==
    \/ RunParseArgs \/ RunValidateInputs \/ RunSelectMode
    \/ DispatchGetDataConfig \/ CreateDerivedStitchedMetadata \/ DiscoverStages
    \/ CopyCompile \/ CompileFragment \/ CompileWrite
    \/ CopyBegin \/ CopyFlatfield \/ CopyFuseZarr \/ CopyFuseMetadata
    \/ CopyStitch \/ CopyCcf \/ CopyReturn
    \/ CmdOutput \/ CmdExit
    \/ RunCreateNgLink \/ RunCopyNgLink \/ RunRecordS3Path
    \/ DispatchEnter \/ DispatchChannel \/ DispatchReturn \/ RunSaveModified
    \/ CleanGetDataConfig \/ CleanCompile \/ CleanBegin \/ CleanCell
    \/ CleanQuant \/ CleanSummary

Spec == Init /\ [][Next]_vars

-----------------------------------------------------------------------------
(* Properties of dispatch, checked under SpecDispatch.                     *)

Terminated == pc \in {"done", "failed", "exited"}

Range(seq) == {seq[k] : k \in 1..Len(seq)}

HasBlock == manifest.hasPP /\ manifest.ppKind = "block"

ErrNoPipeline == "Stopping pipeline, pipeline configuration."
ErrNoChannels == "Stopping pipeline, no segmentation channels."

(* The channels of the ChannelTask writes, in the order they happened. *)
RECURSIVE TaskWrites(_)
TaskWrites(events) ==
    IF events = <<>> THEN <<>>
    ELSE IF Head(events).op = "write" /\ Head(events).what = TaskFileName
         THEN <<Head(events).arg>> \o TaskWrites(Tail(events))
         ELSE TaskWrites(Tail(events))

(* C1 as stated: a block with N >= 1 segmentation channels leaves exactly  *)
(* N ChannelTask files, one per list entry.                                *)
C1_Original ==
    (Terminated /\ HasBlock /\ Len(manifest.segChannels) >= 1)
        => /\ Cardinality(DOMAIN taskFiles) = Len(manifest.segChannels)
           /\ Range(manifest.segChannels) = DOMAIN taskFiles

(* C1 amended: with registration.channels non-empty and N >= 1             *)
(* segmentation channels, dispatch returns after exactly N writes, one per *)
(* list entry in list order, each to the file named by that entry's        *)
(* channel, and leaves one ChannelTask file per distinct channel (N files  *)
(* when the entries are pairwise distinct).                                *)
C1_FanOut ==
    (Terminated /\ HasBlock /\ Len(manifest.segChannels) >= 1
                /\ Len(manifest.regChannels) >= 1)
        => /\ pc = "done"
           /\ TaskWrites(log) = manifest.segChannels
           /\ DOMAIN taskFiles = Range(manifest.segChannels)

C1_Witness ==
    /\ pc = "done"
    /\ Len(manifest.segChannels) = 3
    /\ Cardinality(DOMAIN taskFiles) = 2

(* C2: once dispatch has returned, the file of every channel c carries c   *)
(* as segmentation and quantification channel, registration.channels[0] as *)
(* background channel, the shared fused-data path twice and the fixed save *)
(* path.                                                                   *)
C2_TaskContent ==
    pc = "done" =>
        \A k \in 1..Len(manifest.segChannels) :
            LET c == manifest.segChannels[k]
            IN  /\ c \in DOMAIN taskFiles
                /\ taskFiles[c].segmentation.channel = c
                /\ taskFiles[c].quantification.channel = c
                /\ taskFiles[c].segmentation.background_channel
                       = manifest.regChannels[1]
                /\ taskFiles[c].segmentation.input_data = "../data/fused"
                /\ taskFiles[c].quantification.fused_folder = "../data/fused"
                /\ taskFiles[c].quantification.save_path = "../results/"

C2_Witness ==
    /\ pc = "done"
    /\ Cardinality(DOMAIN taskFiles) = 2
    /\ manifest.segChannels[1] # manifest.segChannels[Len(manifest.segChannels)]

(* C3 as stated: an empty segmentation.channels list ends in the 'no       *)
(* segmentation channels' error with no file written.                      *)
C3_Original ==
    (Terminated /\ HasBlock /\ manifest.segChannels = <<>>)
        => err = ErrNoChannels /\ taskFiles = <<>>

(* C3 amended: with segmentation.channels empty dispatch fails and has     *)
(* written no file; the failure is the 'no segmentation channels' error    *)
(* when registration.channels has an entry, and the IndexError of reading  *)
(* registration.channels[0] when it has none.                              *)
C3_EmptyChannels ==
    (pc # "dispatch" /\ HasBlock /\ manifest.segChannels = <<>>)
        => /\ pc = "failed"
           /\ taskFiles = <<>>
           /\ TaskWrites(log) = <<>>
           /\ err = IF manifest.regChannels = <<>> THEN "IndexError"
                    ELSE ErrNoChannels

C3_Witness ==
    /\ pc = "failed"
    /\ err = ErrNoChannels
    /\ manifest.segChannels = <<>>
    /\ manifest.regChannels # <<>>

(* C4 as stated: the 'missing pipeline configuration' error is taken       *)
(* exactly by the specifications without a pipeline_processing key.        *)
C4_Original ==
    Terminated =>
        /\ (~manifest.hasPP => err = ErrNoPipeline /\ taskFiles = <<>>)
        /\ (manifest.hasPP => err # ErrNoPipeline)

(* C4 amended: a specification without the pipeline_processing key fails   *)
(* with the 'missing pipeline configuration' error and writes no file; so  *)
(* does one whose key holds null or an empty block; a specification whose  *)
(* key holds a non-empty block never takes this error path.                *)
C4_MissingPipeline ==
    pc # "dispatch" =>
        /\ (~HasBlock => pc = "failed" /\ err = ErrNoPipeline
                                       /\ taskFiles = <<>> /\ log = <<>>)
        /\ (HasBlock => err # ErrNoPipeline)

C4_Witness ==
    /\ pc = "failed"
    /\ err = ErrNoPipeline
    /\ ~manifest.hasPP

-----------------------------------------------------------------------------
(* Properties of compile_processing_jsons, checked under SpecCompile.      *)

RECURSIVE Flatten(_)
Flatten(frags) ==
    IF frags = <<>> THEN <<>>
    ELSE Head(frags).entries \o Flatten(Tail(frags))

AllValid(frags) == \A k \in 1..Len(frags) : frags[k].kind = "valid"

(* The position of the first fragment that is not valid. *)
FirstBad(frags) ==
    CHOOSE k \in 1..Len(frags) :
        /\ frags[k].kind # "valid"
        /\ \A j \in 1..(k - 1) : frags[j].kind = "valid"

(* C5: for a list of valid fragments the written document holds the        *)
(* concatenation of the fragments' entry lists, fragment order and         *)
(* within-fragment order kept.                                             *)
C5_Concatenation ==
    (Terminated /\ AllValid(processing_paths))
        => /\ pc = "done"
           /\ procDoc.written
           /\ procDoc.data_processes = Flatten(processing_paths)

C5_Witness ==
    /\ pc = "done"
    /\ Len(processing_paths) = 3
    /\ Len(procDoc.data_processes) = 4
    /\ procDoc.data_processes[1] # procDoc.data_processes[2]

(* C6: compiling no fragment at all is not an error: a document with an    *)
(* empty process list is written and the destination directory returned.   *)
C6_EmptyList ==
    (Terminated /\ processing_paths = <<>>)
        => /\ pc = "done"
           /\ err = "none"
           /\ procDoc = [written |-> TRUE, data_processes |-> <<>>]
           /\ output_filename = "dest"

C6_Witness ==
    /\ pc = "done"
    /\ processing_paths = <<>>
    /\ procDoc.written

(* C7: a fragment that cannot be read, parsed or validated, at any         *)
(* position, makes the compiler raise at that fragment, with every earlier *)
(* fragment consumed, none skipped and no document written.                *)
C7_BadFragmentRaises ==
    (Terminated /\ ~AllValid(processing_paths))
        => /\ pc = "failed"
           /\ err \in {"JSONDecodeError", "ValidationError"}
           /\ fragIdx = FirstBad(processing_paths)
           /\ data_processes
                = Flatten(SubSeq(processing_paths, 1, fragIdx - 1))
           /\ ~procDoc.written
           /\ log = <<>>

C7_Witness ==
    /\ pc = "failed"
    /\ Len(processing_paths) = 3
    /\ fragIdx = 3
    /\ processing_paths[3].kind = "missing"
    /\ data_processes # <<>>

-----------------------------------------------------------------------------
(* Properties of run, checked under Spec.                                  *)

(* The comma-separated tokens of the argument string, before case folding. *)
RawTokens == Split(Remove(Remove(StrOfList(arguments), "["), "]"), ",")

ThreeTokens == Len(RawTokens) = 3

(* word occurs in text when the case of the letters is ignored *)
FoldedContains(text, word) ==
    \E n \in 1..(Len(text) - Len(word) + 1) :
        \A j \in 1..Len(word) : CaseFoldChar(text[n + j - 1]) = word[j]

(* The token, without the quotes and blanks around it, spells word. *)
TokenSpells(token, word) ==
    LET bare == Remove(Remove(token, "'"), " ")
    IN  /\ Len(bare) = Len(word)
        /\ \A j \in 1..Len(word) : CaseFoldChar(bare[j]) = word[j]

SaysDispatch == FoldedContains(RawTokens[1], W_dispatch)
SaysClean == FoldedContains(RawTokens[1], W_clean)

ModeChosen == pc \notin {"run", "validate", "select_mode"}

(* The input files that run checks for the token it was given. *)
CheckedFiles ==
    IF SaysClean THEN {ModifiedManifestFile, DataDescriptionFile}
    ELSE {ManifestFile, DataDescriptionFile}

CommandsIssued == {n \in 1..Len(log) : log[n].op = "cmd"}

(* C8 as stated, read in its favour (a run that enters a mode at all):     *)
(* 'dispatch' in the token runs Dispatch, 'clean' in the token runs Clean, *)
(* any other token ends in 'mode not implemented'.                         *)
C8_Original ==
    (Terminated /\ ThreeTokens)
        => /\ (SaysDispatch /\ branch # "none" => branch = "Dispatch")
           /\ (SaysClean /\ branch # "none" => branch = "Clean")
           /\ (~SaysDispatch /\ ~SaysClean => err = ErrNotImplemented)

(* C8 amended: with three tokens given and the input files that run checks *)
(* present, a case-folded mode token containing 'dispatch' runs Dispatch   *)
(* (also when it contains 'clean' too), one containing 'clean' and not     *)
(* 'dispatch' runs Clean, and any other token ends in the 'mode not        *)
(* implemented' error; with a checked file missing no mode is entered and  *)
(* the run ends in the missing-inputs error.                               *)
C8_ModeSelection ==
    (ThreeTokens /\ ModeChosen)
        => IF CheckedFiles \subseteq exists
           THEN /\ (SaysDispatch => branch = "Dispatch")
                /\ (SaysClean /\ ~SaysDispatch => branch = "Clean")
                /\ (~SaysDispatch /\ ~SaysClean
                       => branch = "none" /\ pc = "failed"
                                          /\ err = ErrNotImplemented)
           ELSE branch = "none" /\ pc = "failed" /\ err = ErrMissingInputs

C8_Witness ==
    /\ branch = "Clean"
    /\ arguments[1][1] = "C"
    /\ pc = "clean_up"

(* The mode that run executes for its token. *)
SelectedMode ==
    IF SaysDispatch THEN "Dispatch" ELSE IF SaysClean THEN "Clean" ELSE "none"

RequiredOf(m) ==
    IF m = "Clean" THEN {ModifiedManifestFile, DataDescriptionFile}
    ELSE {ManifestFile, DataDescriptionFile}

(* The paths that the error names. *)
ReportedAbsent ==
    CASE err = ErrMissingInputs -> Range(missing_files)
      [] err = "Please, check processing manifest path" ->
            IF branch = "Clean" THEN {ModifiedManifestFile} ELSE {ManifestFile}
      [] err = "Please, check data description path" -> {DataDescriptionFile}
      [] OTHER -> {}

NothingDone ==
    /\ log = <<>>
    /\ ~procDoc.written
    /\ processing_paths = <<>>
    /\ taskFiles = <<>>
    /\ ~modified_manifest.written

(* C9: when required input files of the selected mode are absent, the run  *)
(* ends in one error that names every absent required path, with nothing   *)
(* written, compiled or transferred.                                       *)
C9_MissingInputsEnumerated ==
    (Terminated /\ ThreeTokens /\ SelectedMode # "none"
                /\ RequiredOf(SelectedMode) \ exists # {})
        => /\ pc = "failed"
           /\ ReportedAbsent = RequiredOf(SelectedMode) \ exists
           /\ NothingDone

(* C10: a cloud-mode token other than 'true', 'false' among them, leaves   *)
(* the run without any transfer command.                                   *)
C10_FalseIsLocal ==
    (ThreeTokens /\ ~TokenSpells(RawTokens[2], W_true))
        => CommandsIssued = {}


-----------------------------------------------------------------------------
(* Properties of the color mappers, checked under SpecColor.               *)

(* The color that a table binds to the bound b. *)
ColorBoundTo(table, b) ==
    table[CHOOSE n \in 1..Len(table) : table[n].ub = b].hex_val

Bounds(table) == {table[n].ub : n \in 1..Len(table)}

(* The smallest bound of the table among those in the set above. *)
Least(above) == CHOOSE b \in above : \A c \in above : b <= c

(* C11: wavelength_to_hex returns, for every integer, the color of the     *)
(* smallest bound strictly greater than the wavelength; every wavelength   *)
(* >= 750 gets the color bound to 750, every wavelength < 460 the color    *)
(* bound to 460.                                                           *)
C11_VariantA ==
    pc = "returned_hex" =>
        LET above == {b \in Bounds(color_map) : b > wavelength}
        IN  /\ above # {} => hex_val = ColorBoundTo(color_map, Least(above))
            /\ wavelength >= 750 => hex_val = ColorBoundTo(color_map, 750)
            /\ wavelength < 460 => hex_val = ColorBoundTo(color_map, 460)

C11_Witness ==
    /\ pc = "returned_hex"
    /\ wavelength = 460
    /\ hex_val = ColorBoundTo(color_map, 470)

(* C12 as stated: for every bound b, wavelength b returns the color bound  *)
(* to b and wavelength b+1 the color of the next bucket, the one of the    *)
(* smallest bound above b.                                                 *)
C12_Original ==
    pc = "returned_hex_alternate" =>
        /\ wavelength \in Bounds(color_map_alternate)
              => hex_val = ColorBoundTo(color_map_alternate, wavelength)
        /\ (wavelength - 1) \in Bounds(color_map_alternate)
              => /\ {b \in Bounds(color_map_alternate) : b >= wavelength} # {}
                 /\ hex_val = ColorBoundTo(color_map_alternate,
                        Least({b \in Bounds(color_map_alternate) :
                                  b >= wavelength}))

(* C12 amended: for every bound b, wavelength b returns the color bound to *)
(* b; for every bound b but the last, wavelength b+1 returns the color of  *)
(* the next bucket; one above the last bound, 701, returns the color bound *)
(* to 700 again.                                                           *)
C12_VariantB ==
    pc = "returned_hex_alternate" =>
        LET next == {b \in Bounds(color_map_alternate) : b >= wavelength}
        IN  /\ wavelength \in Bounds(color_map_alternate)
                  => hex_val = ColorBoundTo(color_map_alternate, wavelength)
            /\ (wavelength - 1) \in Bounds(color_map_alternate)
                  => hex_val = IF next # {}
                               THEN ColorBoundTo(color_map_alternate, Least(next))
                               ELSE ColorBoundTo(color_map_alternate, 700)

C12_Witness ==
    /\ pc = "returned_hex_alternate"
    /\ wavelength = 531
    /\ hex_val = ColorBoundTo(color_map_alternate, 540)

-----------------------------------------------------------------------------
(* Properties of create_ng_link, checked under SpecNgLink.                 *)

(* How many times x occurs in list. *)
Occurrences(list, x) == Cardinality({n \in 1..Len(list) : list[n] = x})

(* All orders of the list. *)
Reorderings(list) ==
    {[n \in 1..Len(list) |-> list[p[n]]] : p \in Permutations(1..Len(list))}

(* The Variant B color of a wavelength, by the table: the color of the     *)
(* smallest bound that is not below it, the last color above every bound.  *)
VariantBColor(w) ==
    LET next == {b \in Bounds(color_map_alternate) : b >= w}
    IN  IF next # {} THEN ColorBoundTo(color_map_alternate, Least(next))
        ELSE ColorBoundTo(color_map_alternate, 700)

(* C13: once create_ng_link has built its state there is exactly one layer *)
(* per location given, the layers are in ascending string order of source, *)
(* each layer's color is the Variant B color of the numeric suffix of its  *)
(* own source stem, and every reordering of the input gives the same       *)
(* layers.                                                                 *)
C13_LayersSortedAndColored ==
    pc = "done" =>
        /\ Len(layers) = Len(s3_channel_paths)
        /\ \A x \in ChannelPaths :
              Occurrences([n \in 1..Len(layers) |-> layers[n].source], x)
                  = Occurrences(s3_channel_paths, x)
        /\ \A a, b \in 1..Len(layers) :
              a < b => ~StrLess(layers[b].source, layers[a].source)
        /\ \A n \in 1..Len(layers) :
              layers[n].color
                  = "#" \o Hex(VariantBColor(
                                 IntOf(LastToken(PathStem(layers[n].source)))))
        /\ \A q \in Reorderings(s3_channel_paths) : NgLayers(q) = layers

C13_Witness ==
    /\ pc = "done"
    /\ Len(layers) = 3
    /\ s3_channel_paths[1] # layers[1].source
    /\ layers[1].color = "#a81f1f"
    /\ layers[2].color = "#92ff42"

-----------------------------------------------------------------------------
(* Further properties of run, checked under Spec.                          *)

(* The positions of the log where a ChannelTask file is written. *)
TaskWritePositions ==
    {n \in 1..Len(log) : log[n].op = "write" /\ log[n].what = TaskFileName}

(* The destinations of the transfer commands issued so far. *)
TransferDestinations == {log[n].dir : n \in CommandsIssued}

(* C14: in a Dispatch run the storage path is in the specification's       *)
(* stitching block when the first ChannelTask file is written, and in      *)
(* every such file; modified_processing_manifest.json is written after the *)
(* last ChannelTask file, as the last step of the run, and its stitching   *)
(* block holds the path that the transfers went to.                        *)
C14_PathRecordedThenFanOutThenSave ==
    /\ TaskWritePositions # {}
          => /\ s3_path # Unbound
             /\ manifest.s3_path = s3_path
             /\ \A c \in DOMAIN taskFiles : taskFiles[c].s3_path = s3_path
             /\ s3_path \in TransferDestinations
    /\ ~modified_manifest.written
          => \A n \in 1..Len(log) : log[n].what # ModifiedManifestFile
    /\ modified_manifest.written
          => /\ pc = "done"
             /\ TaskWrites(log) = manifest.segChannels
             /\ log[Len(log)].what = ModifiedManifestFile
             /\ \A n \in TaskWritePositions : n < Len(log)
             /\ \A n \in 1..(Len(log) - 1) : log[n].what # ModifiedManifestFile
             /\ modified_manifest.content.s3_path = s3_path
             /\ modified_manifest.content.s3_path
                    = S3Path(output_path, NewDatasetName)
             /\ modified_manifest.content.s3_path \in TransferDestinations

C14_Witness ==
    /\ pc = "done"
    /\ modified_manifest.written
    /\ Len(TaskWrites(log)) = 2
    /\ modified_manifest.content.s3_path \in TransferDestinations

CompileErrors == {"ValidationError", "JSONDecodeError", "IsADirectoryError"}

(* C15: a fragment failure in the compile of copy_intermediate_data leaves *)
(* a null result and control at the relocation steps, with no error        *)
(* raised; the same failure in the compile of clean_up ends the run with   *)
(* the compiler's error before any command is issued and before any        *)
(* provenance document is written.                                         *)
C15_CaughtInCopyFatalInClean ==
    /\ [](compileCaller = "copy" /\ pc # "compile_loop"
              /\ ~AllValid(processing_paths)
            => /\ output_filename = "None"
               /\ ~procDoc.written
               /\ err \notin CompileErrors)
    /\ [][compileCaller = "copy" /\ pc = "compile_loop"
              /\ ~AllValid(processing_paths) /\ pc' # "compile_loop"
            => pc' = "copy_relocate" /\ err' = "none"]_vars
    /\ [](compileCaller = "clean" /\ pc # "compile_loop"
              /\ ~AllValid(processing_paths)
            => /\ pc = "failed"
               /\ err \in CompileErrors
               /\ fragIdx = FirstBad(processing_paths)
               /\ CommandsIssued = {}
               /\ ~procDoc.written)

C15_Witness ==
    /\ compileCaller = "copy"
    /\ ~AllValid(processing_paths)
    /\ output_filename = "None"
    /\ cloud_mode
    /\ Cardinality(CommandsIssued) >= 2

(* A step that starts a transfer command. *)
StartsCommand ==
    /\ Len(log') = Len(log) + 1
    /\ log'[Len(log')].op = "cmd"

(* C16: a command's exit status is examined only when every output line    *)
(* has been delivered, one line per step; a command starts only when none  *)
(* is under way and no error was raised; a command under way is left       *)
(* either with status zero, to the step that follows it, or with the       *)
(* CalledProcessError that ends the run, after which nothing is issued.    *)
C16_OneTransferAtATime ==
    /\ [][pc = "cmd_running" /\ pc' = "cmd_running"
            => cmdLines > 0 /\ cmdLines' = cmdLines - 1 /\ log' = log]_vars
    /\ [][pc = "cmd_running" /\ pc' # "cmd_running"
            => /\ cmdLines = 0
               /\ log' = log
               /\ \/ pc' = cmdNext /\ err' = "none"
                  \/ pc' = "failed" /\ err' = "CalledProcessError"]_vars
    /\ [][StartsCommand
            => pc # "cmd_running" /\ err = "none" /\ pc' = "cmd_running"]_vars
    /\ [][err # "none" => log' = log]_vars
    /\ [](err = "CalledProcessError" => pc = "failed")

C16_Witness ==
    /\ pc = "failed"
    /\ err = "CalledProcessError"
    /\ Cardinality(CommandsIssued) >= 2

(* The sources of the transfer commands issued so far. *)
TransferSources == {log[n].arg : n \in CommandsIssued}

(* The run has come to the visualization step or beyond it. *)
PastRelocation ==
    \/ pc \in {"create_ng_link", "copy_ng_link", "record_s3_path", "dispatch",
               "dispatch_loop", "save_modified", "done"}
    \/ layers # <<>>
    \/ taskFiles # <<>>
    \/ modified_manifest.written

(* C17: in cloud mode, once exists() has reported a fusion folder's         *)
(* OMEZarr or metadata subdirectory, or a stitch folder's metadata          *)
(* subdirectory, absent, the run has failed with the 'does not exist'      *)
(* error, no command was issued for that subdirectory and neither the      *)
(* visualization nor the fan-out has been reached; a run that does reach   *)
(* them has copied both subdirectories of every fusion folder and the      *)
(* metadata of every stitch folder.                                        *)
C17_MissingSubdirectoryIsFatal ==
    /\ found.lacking # {}
          => /\ pc = "failed"
             /\ err = ErrNoFolder
             /\ \A l \in found.lacking :
                   (Str(l[1]) \o "/" \o l[2]) \notin TransferSources
             /\ ~PastRelocation
    /\ (branch = "Dispatch" /\ cloud_mode /\ PastRelocation)
          => /\ \A n \in 1..Len(found.fuse) :
                   /\ (Str(found.fuse[n].name) \o "/OMEZarr") \in TransferSources
                   /\ (Str(found.fuse[n].name) \o "/metadata") \in TransferSources
             /\ \A n \in 1..Len(found.stitch) :
                   (Str(found.stitch[n].name) \o "/metadata") \in TransferSources

C17_Witness ==
    /\ pc = "failed"
    /\ err = ErrNoFolder
    /\ Len(found.fuse) = 2
    /\ found.lacking = {<<found.fuse[2].name, "metadata">>}
    /\ Cardinality(CommandsIssued) >= 4

(* The three lists of folders that are moved by channel. *)
ChannelFolders ==
    {found.ccf[n] : n \in 1..Len(found.ccf)}
        \cup {found.cell[n] : n \in 1..Len(found.cell)}
        \cup {found.quant[n] : n \in 1..Len(found.quant)}

(* The last 13 characters of a name. *)
Ending(name) == SubSeq(name, Len(name) - 12, Len(name))

(* The name ends with Ex_<nnn>_Em_<nnn>. *)
EndsWithChannel(name) ==
    /\ Len(name) >= 13
    /\ LET t == Ending(name)
       IN  /\ <<t[1], t[2], t[3]>> = <<"E", "x", "_">>
           /\ <<t[7], t[8], t[9], t[10]>> = <<"_", "E", "m", "_">>
           /\ \A n \in {4, 5, 6, 11, 12, 13} : IsDigit(t[n])

MoveCommands == {n \in CommandsIssued : log[n].what = "aws s3 mv --recursive"}

(* The folder that the loop under way has come to. *)
FolderAtHand ==
    IF branch = "Dispatch" THEN found.ccf[loopIdx]
    ELSE IF loopIdx <= Len(found.cell) /\ Cardinality(MoveCommands) < Len(found.cell)
         THEN found.cell[loopIdx]
         ELSE found.quant[loopIdx]

(* C18: every move of a ccf, cell or quantification folder goes to a       *)
(* destination whose last component is the Ex_<nnn>_Em_<nnn> that the      *)
(* folder's name ends with, never to an empty one; a folder whose name     *)
(* does not end so is never moved, and the run fails at it with the        *)
(* AttributeError of the missing match.                                    *)
C18_ChannelTokenOrError ==
    /\ \A n \in MoveCommands :
          /\ log[n].leaf # ""
          /\ \E f \in ChannelFolders :
                /\ log[n].arg = Str(f.name)
                /\ EndsWithChannel(f.name)
                /\ log[n].leaf = Str(Ending(f.name))
    /\ \A f \in ChannelFolders :
          ~EndsWithChannel(f.name)
              => \A n \in MoveCommands : log[n].arg # Str(f.name)
    /\ err = "AttributeError"
          => /\ pc = "failed"
             /\ ~EndsWithChannel(FolderAtHand.name)
    /\ pc \in {"copy_return", "clean_summary"} /\ cloud_mode
          => \A f \in ChannelFolders : EndsWithChannel(f.name)

C18_Witness ==
    /\ pc = "failed"
    /\ err = "AttributeError"
    /\ branch = "Dispatch"
    /\ Len(found.ccf) = 2
    /\ Cardinality(MoveCommands) = 1
    /\ \E n \in MoveCommands : log[n].leaf = "Ex_561_Em_600"

StartsWith(text, word) ==
    Len(text) >= Len(word) /\ SubSeq(text, 1, Len(word)) = word

(* The place of a process entry's stage in the order of its mode: an entry *)
(* carries the name of the folder its fragment was found in.               *)
StageRank(entry) ==
    CASE StartsWith(entry, W_output_aind_metadata) -> 1
      [] StartsWith(entry, P_cell) -> 2
      [] StartsWith(entry, P_quant) -> 3
      [] StartsWith(entry, P_destripe) -> 1
      [] StartsWith(entry, P_flatfield) -> 2
      [] StartsWith(entry, P_stitch) -> 3
      [] StartsWith(entry, P_fusion) -> 4
      [] StartsWith(entry, P_ccf) -> 5
      [] OTHER -> 0

(* The entries of the fragments of a list of folders. *)
EntriesOf(folders) == Flatten(FragmentsOf(folders))

(* C19: in a merged provenance document written by the Dispatch copy step  *)
(* or by Clean the entries stand in the order of their stages, no entry of *)
(* a later stage before one of an earlier stage: dataset provenance, then  *)
(* segmentation, then quantification in Clean; destripe, (flatfield,)      *)
(* stitch, fuse, ccf in Dispatch; within a stage, the order of discovery.  *)
C19_StageOrder ==
    (procDoc.written /\ compileCaller \in {"copy", "clean"})
        => /\ \A a, b \in 1..Len(procDoc.data_processes) :
                 a < b => /\ StageRank(procDoc.data_processes[a]) >= 1
                          /\ StageRank(procDoc.data_processes[a])
                                <= StageRank(procDoc.data_processes[b])
           /\ compileCaller = "copy"
                 => procDoc.data_processes
                        = EntriesOf(found.destripe) \o EntriesOf(found.stitch)
                            \o EntriesOf(found.fuse) \o EntriesOf(found.ccf)
           /\ compileCaller = "clean"
                 => procDoc.data_processes
                        = <<W_output_aind_metadata>> \o EntriesOf(found.cell)
                            \o EntriesOf(found.quant)

C19_Witness ==
    /\ procDoc.written
    /\ compileCaller = "copy"
    /\ Len(procDoc.data_processes) = 2
    /\ StageRank(procDoc.data_processes[1]) = 4
    /\ StageRank(procDoc.data_processes[2]) = 5

(* The errors of an input that is not valid: a required file missing, a   *)
(* specification or description without the keys read, a fragment or a     *)
(* data description that the schema rejects, a location without a numeric  *)
(* suffix, a state that the link builder refuses.                          *)
InputErrors ==
    CompileErrors
        \cup {ErrMissingInputs, ErrNotImplemented, "exit(1)", "KeyError",
              "IndexError", "ValueError", "NgStateError", ErrNoPipeline,
              ErrNoChannels, "Please, check processing manifest path",
              "Please, check data description path"}

SummariesWritten ==
    /\ \E n \in 1..Len(log) : log[n].what = "output_cell.txt"
    /\ \E n \in 1..Len(log) : log[n].what = "output_quantification.txt"

(* C20: with cloud mode off and no error of the inputs, a run that has     *)
(* entered a mode ends in success: Dispatch with the ChannelTask files and *)
(* modified_processing_manifest.json written, Clean with the two summary   *)
(* files written, and no transfer command issued.                          *)
C20_LocalModeSucceeds ==
    (Terminated /\ ~cloud_mode /\ branch # "none" /\ err \notin InputErrors)
        => /\ pc = "done"
           /\ err = "none"
           /\ CommandsIssued = {}
           /\ branch = "Dispatch"
                 => taskFiles # <<>> /\ modified_manifest.written
           /\ branch = "Clean" => SummariesWritten

(* What the stamps of the last channel leave in the segmentation block. *)
LastStamp(m) ==
    [input_data |-> "../data/fused",
     channel |-> m.segChannels[Len(m.segChannels)],
     background_channel |-> m.regChannels[1]]

(* A specification with its segmentation block blanked out. *)
OutsideSegmentation(m) == [m EXCEPT !.segmentation = RawSegmentation]

(* C21: no step of dispatch changes the caller's specification outside     *)
(* its segmentation block; when dispatch has returned in a Dispatch run    *)
(* the block carries the last channel of the list, registration.channels   *)
(* [0] and the shared input path, the specification has no quantification  *)
(* block and its stitching block still holds the recorded storage path;    *)
(* modified_processing_manifest.json is that specification.                *)
C21_OnlySegmentationChanged ==
    /\ [][(pc = "dispatch" \/ pc = "dispatch_loop")
            => OutsideSegmentation(manifest')
                   = OutsideSegmentation(manifest)]_vars
    /\ [](branch = "Dispatch" /\ pc \in {"save_modified", "done"}
            => /\ manifest.segmentation = LastStamp(manifest)
               /\ ~manifest.quantification.present
               /\ manifest.s3_path = s3_path
               /\ manifest.segChannels = GoodChannels
               /\ manifest.regChannels = GoodBackground)
    /\ [](modified_manifest.written
            => /\ modified_manifest.content = manifest
               /\ modified_manifest.content.segmentation
                      = LastStamp(modified_manifest.content)
               /\ ~modified_manifest.content.quantification.present)

C21_Witness ==
    /\ modified_manifest.written
    /\ modified_manifest.content.segmentation.channel = "Ex_561_Em_600"
    /\ taskFiles["Ex_488_Em_525"].segmentation.channel = "Ex_488_Em_525"
    /\ taskFiles["Ex_488_Em_525"].quantification.present

(* C22: the input files that run checks are those of the mode it then     *)
(* executes: whenever Dispatch is entered processing_manifest.json was     *)
(* checked, and so is there; whenever Clean is entered                     *)
(* modified_processing_manifest.json was checked, and so is there; this    *)
(* for every token, one that holds both mode words included.               *)
C22_CheckedFilesOfExecutedMode ==
    /\ (pc # "run" /\ ThreeTokens /\ ModeBranch(mode) # "none")
          => Range(RequiredInputElements(mode)) = RequiredOf(ModeBranch(mode))
    /\ branch = "Dispatch" => ManifestFile \in exists
    /\ branch = "Clean" => ModifiedManifestFile \in exists

(* The errors that end a Dispatch run during relocation, provenance        *)
(* handling or the building of the visualization link.                     *)
AbortErrors ==
    CompileErrors
        \cup {ErrNoFolder, "AttributeError", "CalledProcessError", "ValueError",
              "NgStateError", "KeyError", "UnboundLocalError"}

(* C23: a Dispatch run that has aborted with an error of relocation,       *)
(* provenance handling or visualization building has written no            *)
(* ChannelTask file and no modified_processing_manifest.json; a            *)
(* ChannelTask file is written only when every transfer command of the run *)
(* has been issued and has exited, each of them before the first write.    *)
C23_NoTaskBeforeRelocationDone ==
    /\ (branch = "Dispatch" /\ pc = "failed" /\ err \in AbortErrors)
          => /\ taskFiles = <<>>
             /\ TaskWritePositions = {}
             /\ ~modified_manifest.written
    /\ TaskWritePositions # {}
          => /\ pc # "cmd_running"
             /\ err = "none"
             /\ \A c \in CommandsIssued : \A t \in TaskWritePositions : c < t
             /\ \E n \in 1..Len(log) : log[n].what = "neuroglancer_config.json"

C23_Witness ==
    /\ branch = "Dispatch"
    /\ pc = "failed"
    /\ err = "NgStateError"
    /\ Cardinality(CommandsIssued) >= 3
    /\ manifest.segChannels = GoodChannels

(* The fragments that the compiler has opened: all of them when its loop   *)
(* has ended, those up to the one it failed at otherwise.                  *)
FragmentsRead ==
    IF pc = "compile_loop" THEN 1..(fragIdx - 1)
    ELSE {n \in 1..Len(processing_paths) : n <= fragIdx}

(* The folders for which a move command has been issued. *)
MovedFolders ==
    {f \in ChannelFolders : \E n \in MoveCommands : log[n].arg = Str(f.name)}

(* The positions in the compiler's list of the valid fragments of a        *)
(* folder, which carry the folder's name.                                  *)
PositionsOf(f) ==
    {n \in 1..Len(processing_paths) :
        /\ processing_paths[n].kind = "valid"
        /\ processing_paths[n].entries = <<f.name>>
        /\ \E j \in 1..Len(f.frags) : f.frags[j] = processing_paths[n]}

(* The files that the run writes, all of them in the results folder. *)
ResultFiles ==
    {TaskFileName, "processing.json", "data_description.json",
     "neuroglancer_config.json", "output_stitching.txt", "output_cell.txt",
     "output_quantification.txt", ModifiedManifestFile}

(* C24 as stated: every fragment of a folder has been read by the compiler *)
(* when a move command for that folder is issued.                          *)
C24_Original ==
    \A f \in MovedFolders : PositionsOf(f) \subseteq FragmentsRead

(* C24 amended: the compiler has returned or failed before the first move  *)
(* command is issued and reads nothing afterwards, and the run writes only *)
(* to the results folder, never to a fragment; in Clean every fragment has *)
(* been read before the first move; in Dispatch every fragment has been    *)
(* read before the first move unless a fragment failed, in which case the  *)
(* fragments after the failing one are never read and their folders are    *)
(* moved all the same.                                                     *)
C24_ReadsBeforeMoves ==
    /\ [][fragIdx' # fragIdx \/ data_processes' # data_processes
            => MoveCommands = {} /\ ~StartsCommand]_vars
    /\ [](MoveCommands # {}
            => /\ pc # "compile_loop"
               /\ compileCaller = "clean"
                     => /\ fragIdx = Len(processing_paths) + 1
                        /\ \A f \in MovedFolders : PositionsOf(f) \subseteq FragmentsRead
               /\ compileCaller = "copy"
                     => \/ fragIdx = Len(processing_paths) + 1
                        \/ /\ fragIdx = FirstBad(processing_paths)
                           /\ output_filename = "None"
                           /\ ~procDoc.written)
    /\ [](\A n \in 1..Len(log) :
             log[n].op = "write" => log[n].what \in ResultFiles)

C24_Witness ==
    /\ compileCaller = "copy"
    /\ output_filename = "None"
    /\ fragIdx < Len(processing_paths)
    /\ \E f \in MovedFolders : PositionsOf(f) # {}

=============================================================================
